---- MODULE Spec2Model ----
(***************************************************************************)
(* Position-averaging engine (TradingEngine, trading_engine.py) and the   *)
(* single-file engine (SimpleTradingEngine, main.py) against an exchange.  *)
(*                                                                         *)
(* Units: prices are integers in 1/100 of the quote currency (the code     *)
(* rounds limit prices to 2 places), quantities are integers in 1/1000 of  *)
(* the base asset (ROUND_DECIMALS = 3), amounts are in 1/100 of the quote   *)
(* currency, percents are integers.                                        *)
(*                                                                         *)
(* Every exchange request is one step of the thread that issues it; the    *)
(* exchange answers "ok", "err" (a result with retCode # 0) or "exc" (the   *)
(* client raises).  Between two requests the exchange may fill a resting   *)
(* order, a signal may arrive, and another caller may run stop().          *)
(***************************************************************************)
EXTENDS Integers, Sequences, FiniteSets, TLC

\* ---------------------------------------------------------------- bounds
MaxTicks == 2
MaxFills == 1
MaxRuns == 1
MaxFailures == 1
StopFailures == 7
MaxOrders == 4

\* ------------------------------------------------------ program constants
MIN_QUANTITY == 1
ROUND_DECIMALS == 3
INITIAL_POSITION_SIZE == 0
QtyScale == 1000

Outcomes == {"ok", "err", "exc"}
TickerPrices == {5000000}

\* ------------------------------------------------------------- arithmetic
\* round(): nearest, ties to even (non-negative operands)
RoundDiv(a, b) ==
  LET q == a \div b
      r == a % b
  IN  IF 2 * r < b THEN q
      ELSE IF 2 * r > b THEN q + 1
      ELSE IF q % 2 = 0 THEN q ELSE q + 1

\* calculate_quantity without the minimum
calculate_quantity_NoMinimum(amount, price) ==
  RoundDiv(amount[1] * QtyScale, amount[2] * price)

\* utils.calculate_quantity: amount is the pair <<n, d>> (n/d hundredths of
\* the quote currency), price in hundredths; the result in thousandths.
calculate_quantity(amount, price) ==
  LET qty == RoundDiv(amount[1] * QtyScale, amount[2] * price)
  IN  IF qty < MIN_QUANTITY THEN MIN_QUANTITY ELSE qty

\* utils.calculate_tp_price: the unrounded price as the pair <<num, den>>
calculate_tp_price(current_price, percent, side) ==
  IF side = "short"
  THEN <<current_price * (100 - percent), 100>>
  ELSE <<current_price * (100 + percent), 100>>

\* the price cut to 2 decimals instead of rounded
round2_Truncates(p) == p[1] \div p[2]

\* round(tp_price, 2) at the place_order call
round2(p) == RoundDiv(p[1], p[2])

\* utils.calculate_dca_prices: prices[i], i in 0 .. orders_count-1
calculate_dca_prices(current_price, range_percent, orders_count, side) ==
  LET den == 100 * (orders_count - 1)
      lo  == IF side = "short" THEN current_price * (100 - range_percent)
                               ELSE current_price * 100
      hi  == IF side = "short" THEN current_price * 100
                               ELSE current_price * (100 + range_percent)
  IN  [i \in 1 .. orders_count |->
         RoundDiv(lo * (orders_count - 1) + (i - 1) * (hi - lo), den)]

get_api_side(side) == IF side = "short" THEN "Sell" ELSE "Buy"

\* get_tp_side answering the opening side
get_tp_side_Same(side) == IF side = "short" THEN "Sell" ELSE "Buy"

get_tp_side(side) == IF side = "short" THEN "Buy" ELSE "Sell"

\* ---------------------------------------------------------- configuration
AllFields == {"symbol", "side", "market_order_amount", "leverage", "tp_orders",
              "limit_orders", "range_percent", "orders_count",
              "limit_orders_amount"}

FullConfig(side) ==
  [loaded |-> TRUE, fields |-> AllFields, side |-> side,
   market_order_amount |-> 1000, leverage |-> 10,
   tp_orders |-> << [price_percent |-> 5, quantity_percent |-> 50],
                    [price_percent |-> 10, quantity_percent |-> 50] >>,
   range_percent |-> 5, orders_count |-> 2, limit_orders_amount |-> 300]

Without(cfg, f) == [cfg EXCEPT !.fields = @ \ {f}]

NoConfig == [FullConfig("long") EXCEPT !.loaded = FALSE, !.fields = {}]

\* what config.json may hold
ConfigFiles ==
  {FullConfig("long"), FullConfig("short"),
   [FullConfig("long") EXCEPT !.orders_count = 1]}
    \cup {Without(FullConfig("long"), f) : f \in AllFields}

\* utils.validate_config: TRUE when no ValueError is raised
validate_config(cfg) ==
  /\ {"symbol", "side", "market_order_amount", "leverage", "tp_orders",
      "limit_orders"} \subseteq cfg.fields
  /\ Len(cfg.tp_orders) # 0
  /\ {"range_percent", "orders_count"} \subseteq cfg.fields

\* ------------------------------------------------------------------ state
VARIABLES
  is_running,   \* TradingEngine.is_running
  config,       \* TradingEngine.config (NoConfig for None)
  start_time,   \* TradingEngine.start_time (0 for None)
  main,         \* the thread inside start(): position and locals
  stopf,        \* one frame per execution of stop()
  exch,         \* the exchange: position and order list
  log,          \* the requests sent to the exchange, in order
  obs,          \* the position size each poll tick observed (-1: query failed)
  count,        \* counters: ticks, recomputes, stop() executions, runs, fills,
                \* and the failures the exchange may still answer (allow)
  exited        \* the process has exited (sys.exit in the signal handler)

vars ==
  <<is_running, config, start_time, main, stopf, exch, log, obs, count, exited>>

Stoppers == {"caller", "sig1", "sig2"}

NoFrame == [pc |-> "none", size |-> 0, list |-> <<>>, j |-> 0, inv |-> 0,
            last |-> "-"]

MainInit ==
  [pc |-> "idle", price |-> 0, k |-> 0, olist |-> <<>>, oi |-> 0,
   clist |-> <<>>, cj |-> 0, basis |-> 0, local |-> <<0, 1>>]

Init ==
  /\ is_running = FALSE
  /\ config = NoConfig
  /\ start_time = 0
  /\ main = MainInit
  /\ stopf = [s \in Stoppers |-> NoFrame]
  /\ exch = [size |-> INITIAL_POSITION_SIZE, side |-> "None", avg |-> 0,
             orders |-> <<>>, nextId |-> 1, history |-> <<>>]
  /\ log = <<>>
  /\ obs = <<>>
  /\ count = [tick |-> 0, rc |-> 0, inv |-> 0, runs |-> 0, fills |-> 0,
              allow |-> MaxFailures]
  /\ exited = FALSE

\* --------------------------------------------------------------- requests
\* out: the answer of the exchange; seen, avg: the size and the avgPrice a
\* position query reported; ids: the orders an open-orders query listed;
\* basis: the price a TP leg was planned against, as the pair <<num, den>>;
\* ladder: "tp" or "dca" for a leg of a ladder;
\* by: "start" (opening and laddering), "tick" (the poll loop) or the stopper;
\* rc: the recompute the request belongs to (0: none); inv: the execution of
\* stop() it belongs to (0: none)
Req(op, by, rc, inv) ==
  [op |-> op, by |-> by, tick |-> count.tick, rc |-> rc, inv |-> inv,
   typ |-> "-", side |-> "-", qty |-> 0, price |-> 0, tif |-> "-",
   id |-> 0, leg |-> 0, basis |-> <<0, 1>>, out |-> "-", seen |-> 0,
   avg |-> 0, ids |-> {}, limits |-> {}, ladder |-> "-"]

Place(by, rc, inv, typ, side, qty, price, tif, leg, basis) ==
  [Req("place_order", by, rc, inv) EXCEPT !.typ = typ, !.side = side,
     !.qty = qty, !.price = price, !.tif = tif, !.leg = leg, !.basis = basis]

Cancel(by, rc, inv, id) == [Req("cancel_order", by, rc, inv) EXCEPT !.id = id]

\* the log after request r was answered out
Sent(r, out) == Append(log, [r EXCEPT !.out = out])

\* the ticker query by `by` with the last price it returned
Ticker(by, p, out) ==
  [Req("get_tickers", by, 0, 0) EXCEPT !.price = IF out = "ok" THEN p ELSE 0]

\* the position query and the open-orders query with what they reported
PositionQuery(by, rc, inv, e, out) ==
  [Req("get_positions", by, rc, inv) EXCEPT
     !.seen = IF out = "ok" THEN e.size ELSE 0,
     !.avg = IF out = "ok" THEN e.avg ELSE 0]

OrdersQuery(by, rc, inv, e, out) ==
  [Req("get_open_orders", by, rc, inv) EXCEPT
     !.ids = IF out = "ok" THEN {e.orders[i].orderId : i \in 1 .. Len(e.orders)}
             ELSE {},
     !.limits = IF out = "ok"
                THEN {e.orders[i].orderId :
                        i \in {h \in 1 .. Len(e.orders) : e.orders[h].orderType = "Limit"}}
                ELSE {}]

\* -------------------------------------------------------------- exchange
\* the exchange may fail a request while the failure bound allows it
Answers(out) == out = "ok" \/ count.allow > 0

Counted(c, out) == IF out = "ok" THEN c ELSE [c EXCEPT !.allow = @ - 1]

\* the position after an execution of qty at price on side
Position(e, side, qty, price) ==
  IF e.size = 0
  THEN [e EXCEPT !.size = qty, !.side = side, !.avg = price]
  ELSE IF e.side = side
  THEN [e EXCEPT !.size = @ + qty,
                 !.avg = (e.size * e.avg + qty * price) \div (e.size + qty)]
  ELSE IF qty < e.size THEN [e EXCEPT !.size = @ - qty]
  ELSE IF qty = e.size THEN [e EXCEPT !.size = 0, !.side = "None", !.avg = 0]
  ELSE [e EXCEPT !.size = qty - e.size, !.side = side, !.avg = price]

\* an execution moves the position and enters the order history as Filled
ApplyFill(e, side, qty, price) ==
  [Position(e, side, qty, price) EXCEPT
     !.history = Append(@, [orderStatus |-> "Filled", qty |-> qty,
                            avgPrice |-> price])]

\* a limit order accepted by the exchange rests in the order list
AddOrder(e, side, qty, price) ==
  [e EXCEPT !.orders = Append(@, [orderId |-> e.nextId, orderType |-> "Limit",
                                   orderStatus |-> "New", side |-> side,
                                   qty |-> qty, price |-> price]),
            !.nextId = @ + 1]

RemoveAt(s, i) == SubSeq(s, 1, i - 1) \o SubSeq(s, i + 1, Len(s))

IndexOfId(orders, id) ==
  IF \E i \in 1 .. Len(orders) : orders[i].orderId = id
  THEN CHOOSE i \in 1 .. Len(orders) : orders[i].orderId = id
  ELSE 0

\* the exchange accepts a cancel only for an order that still rests
Cancellable(e, id) ==
  /\ IndexOfId(e.orders, id) # 0
  /\ e.orders[IndexOfId(e.orders, id)].orderStatus = "New"

RemoveOrder(e, id) == [e EXCEPT !.orders = RemoveAt(@, IndexOfId(@, id))]

\* the answers the exchange can give to a cancel of id: one that no longer
\* rests is always refused, a resting one while the failure bound allows it
CancelAnswers(e, id, out) ==
  IF Cancellable(e, id) THEN Answers(out) ELSE out # "ok"

CancelCounted(c, e, id, out) == IF Cancellable(e, id) THEN Counted(c, out) ELSE c

\* ----------------------------------------------------------------- threads
HandlerActive == stopf["sig1"].pc # "none" \/ stopf["sig2"].pc # "none"

\* the main thread runs unless the process exited or a signal handler is on it
MainFree == ~exited /\ ~HandlerActive

\* back at the head of `while self.is_running`, locals dropped
ToSleep(m) == [MainInit EXCEPT !.pc = "sleep", !.price = m.price]

ToIdle(m) == MainInit

\* ---------------------------------------------------------------- start()
\* start(), load_config(): file is the content of config.json (NoConfig when
\* it cannot be read or parsed)
start(file) ==
  /\ MainFree /\ main.pc = "idle"
  /\ IF is_running \/ ~file.loaded
     THEN UNCHANGED vars
     ELSE /\ config' = file
          /\ IF validate_config(file) /\ count.runs < MaxRuns
             THEN /\ is_running' = TRUE
                  /\ start_time' = count.runs + 1
                  /\ main' = [main EXCEPT !.pc = "run_price"]
                  /\ count' = [count EXCEPT !.runs = @ + 1]
             ELSE UNCHANGED <<is_running, start_time, main, count>>
          /\ UNCHANGED <<stopf, exch, log, obs, exited>>

\* the frame of the other caller after its call returned with outcome r
Returned(r) == [stopf EXCEPT !["caller"] = [NoFrame EXCEPT !.last = r]]

\* start() without its `if self.is_running: return`
start_again_NoGuard(file) ==
  /\ ~exited /\ main.pc # "idle" /\ stopf["caller"].pc = "none"
  /\ IF ~file.loaded
     THEN /\ stopf' = Returned("noconfig")
          /\ UNCHANGED <<is_running, config, start_time, count>>
     ELSE /\ config' = file
          /\ IF validate_config(file) /\ count.runs < MaxRuns
             THEN /\ is_running' = TRUE
                  /\ start_time' = count.runs + 1
                  /\ count' = [count EXCEPT !.runs = @ + 1]
                  /\ stopf' = Returned("started")
             ELSE /\ stopf' = Returned("invalid")
                  /\ UNCHANGED <<is_running, start_time, count>>
  /\ UNCHANGED <<main, exch, log, obs, exited>>

\* start() called by another caller while a thread is inside start(): it
\* returns at once when is_running is set; otherwise it loads config.json
\* and, if that is valid, begins a run of its own, which is a run beyond
\* MaxRuns when the first one is counted
start_again(file) ==
  /\ ~exited /\ main.pc # "idle" /\ stopf["caller"].pc = "none"
  /\ IF is_running
     THEN /\ stopf' = Returned("running")
          /\ UNCHANGED <<is_running, config, start_time, count>>
     ELSE IF ~file.loaded
     THEN /\ stopf' = Returned("noconfig")
          /\ UNCHANGED <<is_running, config, start_time, count>>
     ELSE /\ config' = file
          /\ IF validate_config(file) /\ count.runs < MaxRuns
             THEN /\ is_running' = TRUE
                  /\ start_time' = count.runs + 1
                  /\ count' = [count EXCEPT !.runs = @ + 1]
                  /\ stopf' = Returned("started")
             ELSE /\ stopf' = Returned("invalid")
                  /\ UNCHANGED <<is_running, start_time, count>>
  /\ UNCHANGED <<main, exch, log, obs, exited>>

\* _run_trading_loop: current_price = get_current_price(symbol)
run_get_current_price(out, p) ==
  /\ MainFree /\ main.pc = "run_price" /\ Answers(out)
  /\ log' = Sent(Ticker("start", p, out), out)
  /\ main' = IF out = "ok"
             THEN [main EXCEPT !.pc = "leverage", !.price = p]
             ELSE ToIdle(main)
  /\ count' = Counted(count, out)
  /\ UNCHANGED <<is_running, config, start_time, stopf, exch, obs, exited>>

\* open_position giving up when set_leverage raises
open_position_set_leverage_Aborts(out) ==
  /\ MainFree /\ main.pc = "leverage" /\ Answers(out)
  /\ log' = Sent(Req("set_leverage", "start", 0, 0), out)
  /\ main' = IF out = "exc" THEN ToIdle(main) ELSE [main EXCEPT !.pc = "open_price"]
  /\ count' = Counted(count, out)
  /\ UNCHANGED <<is_running, config, start_time, stopf, exch, obs, exited>>

\* open_position: set_leverage; every failure is logged and ignored (the
\* client raises for the error code 110043, leverage not modified, as for
\* any other error code)
open_position_set_leverage(out) ==
  /\ MainFree /\ main.pc = "leverage" /\ Answers(out)
  /\ log' = Sent(Req("set_leverage", "start", 0, 0), out)
  /\ main' = [main EXCEPT !.pc = "open_price"]
  /\ count' = Counted(count, out)
  /\ UNCHANGED <<is_running, config, start_time, stopf, exch, obs, exited>>

\* open_position: the second price fetch; p is the price fetched (kept in
\* basis until the market order is sent)
open_position_get_price(out, p) ==
  /\ MainFree /\ main.pc = "open_price" /\ Answers(out)
  /\ log' = Sent(Ticker("start", p, out), out)
  /\ main' = IF out = "ok"
             THEN [main EXCEPT !.pc = "market", !.basis = p]
             ELSE ToIdle(main)
  /\ count' = Counted(count, out)
  /\ UNCHANGED <<is_running, config, start_time, stopf, exch, obs, exited>>

\* place_tp_orders called with the price open_position fetched
ToTp_OwnPrice(m) == [m EXCEPT !.pc = "tp", !.k = 1, !.price = m.basis, !.basis = 0]

\* after open_position returned an order: place_tp_orders from leg 1
ToTp(m) == [m EXCEPT !.pc = "tp", !.k = 1, !.basis = 0]

\* where open_position's market order leaves _run_trading_loop: the order
\* is returned whatever its retCode, only a raise makes it None
AfterMarketOrder(m, out) == IF out = "exc" THEN ToIdle(m) ELSE ToTp(m)

\* the market order of open_position at the price it fetched
MarketRequest(price) ==
  Place("start", 0, 0, "Market", get_api_side(config.side),
        calculate_quantity(<<config.market_order_amount * 100, 1>>, price),
        0, "IOC", 0, <<price, 1>>)

\* open_position: the market order that opens the position
open_position_place_order(out) ==
  /\ MainFree /\ main.pc = "market" /\ Answers(out)
  /\ LET r == MarketRequest(main.basis)
     IN  /\ log' = Sent(r, out)
         /\ main' = AfterMarketOrder(main, out)
         /\ exch' = IF out = "ok" THEN ApplyFill(exch, r.side, r.qty, main.basis)
                    ELSE exch
  /\ count' = Counted(count, out)
  /\ UNCHANGED <<is_running, config, start_time, stopf, obs, exited>>

\* TP leg k sized as its share of the open position, not from
\* market_order_amount
TpRequest_FromPosition(by, rc, k, current_price) ==
  LET tp == config.tp_orders[k]
  IN  [Place(by, rc, 0, "Limit", get_tp_side(config.side),
             calculate_quantity(<<tp.quantity_percent * exch.size, 100 * QtyScale>>, 1),
             round2(calculate_tp_price(current_price, tp.price_percent, config.side)),
             "GTC", k, <<current_price, 1>>) EXCEPT !.ladder = "tp"]

\* the request of TP leg k against basis current_price (place_tp_orders body)
TpRequest(by, rc, k, current_price) ==
  LET tp == config.tp_orders[k]
  IN  [Place(by, rc, 0, "Limit", get_tp_side(config.side),
             calculate_quantity(<<tp.quantity_percent * config.market_order_amount, 1>>,
                                current_price),
             round2(calculate_tp_price(current_price, tp.price_percent, config.side)),
             "GTC", k, <<current_price, 1>>) EXCEPT !.ladder = "tp"]

\* where _run_trading_loop goes after place_tp_orders: place_dca_orders
\* raises out of start() when orders_count = 1 (division by zero), and its
\* legs send nothing when limit_orders_amount is missing (KeyError per leg)
ToDca(m) ==
  IF config.orders_count = 1 THEN [MainInit EXCEPT !.pc = "raised"]
  ELSE IF "limit_orders_amount" \notin config.fields THEN ToSleep(m)
  ELSE [m EXCEPT !.pc = "dca", !.k = 1]

\* place_tp_orders giving up the ladder at the first leg that fails
place_tp_orders_StopsOnFailure(out) ==
  /\ MainFree /\ main.pc = "tp" /\ Answers(out)
  /\ LET r == TpRequest("start", 0, main.k, main.price)
     IN  /\ log' = Sent(r, out)
         /\ exch' = IF out = "ok" THEN AddOrder(exch, r.side, r.qty, r.price)
                    ELSE exch
         /\ main' = IF main.k < Len(config.tp_orders) /\ out = "ok"
                    THEN [main EXCEPT !.k = @ + 1]
                    ELSE ToDca(main)
  /\ count' = Counted(count, out)
  /\ UNCHANGED <<is_running, config, start_time, stopf, obs, exited>>

\* place_tp_orders(config, current_price) at opening: one leg per step
place_tp_orders(out) ==
  /\ MainFree /\ main.pc = "tp" /\ Answers(out)
  /\ LET r == TpRequest("start", 0, main.k, main.price)
     IN  /\ log' = Sent(r, out)
         /\ exch' = IF out = "ok" THEN AddOrder(exch, r.side, r.qty, r.price)
                    ELSE exch
         /\ main' = IF main.k < Len(config.tp_orders)
                    THEN [main EXCEPT !.k = @ + 1]
                    ELSE ToDca(main)
  /\ count' = Counted(count, out)
  /\ UNCHANGED <<is_running, config, start_time, stopf, obs, exited>>

\* the request of DCA leg k around current_price (place_dca_orders body)
DcaRequest(k, current_price) ==
  LET price == calculate_dca_prices(current_price, config.range_percent,
                                    config.orders_count, config.side)[k]
  IN  [Place("start", 0, 0, "Limit", get_api_side(config.side),
             calculate_quantity(<<config.limit_orders_amount * 100,
                                  config.orders_count>>, price),
             price, "GTC", k, <<current_price, 1>>) EXCEPT !.ladder = "dca"]

\* place_dca_orders(config, current_price): one leg per step
place_dca_orders(out) ==
  /\ MainFree /\ main.pc = "dca" /\ Answers(out)
  /\ LET r == DcaRequest(main.k, main.price)
     IN  /\ log' = Sent(r, out)
         /\ exch' = IF out = "ok" THEN AddOrder(exch, r.side, r.qty, r.price)
                    ELSE exch
         /\ main' = IF main.k < config.orders_count
                    THEN [main EXCEPT !.k = @ + 1]
                    ELSE ToSleep(main)
  /\ count' = Counted(count, out)
  /\ UNCHANGED <<is_running, config, start_time, stopf, obs, exited>>

\* ------------------------------------------------------------ poll tick
\* index of the first order of list at or after from that reads Filled (0: none)
NextFilled(list, from) ==
  IF \E i \in from .. Len(list) : list[i].orderStatus = "Filled"
  THEN CHOOSE i \in from .. Len(list) :
         /\ list[i].orderStatus = "Filled"
         /\ \A h \in from .. (i - 1) : list[h].orderStatus # "Filled"
  ELSE 0

\* the recompute with the new ladder placed first and the old orders
\* cancelled last
RecalcSequence_PlaceFirst(stage) ==
  CASE stage = "begin" -> "rc_pos"
    [] stage = "rc_pos" -> "rc_tp"
    [] stage = "rc_tp" -> "rc_open"
    [] OTHER -> "end"

\* recalculate_tp_orders runs cancel_tp_orders, then calculate_new_avg_price,
\* then place_tp_orders: the stage that follows stage
RecalcSequence(stage) ==
  CASE stage = "begin" -> "rc_open"
    [] stage = "rc_open" -> "rc_pos"
    [] stage = "rc_pos" -> "rc_tp"
    [] OTHER -> "end"

\* check_executed_orders' loop over order_list from index from: the next
\* Filled entry starts recalculate_tp_orders, none ends the tick
ToNextFilled(m, from) ==
  IF NextFilled(m.olist, from) = 0 THEN ToSleep(m)
  ELSE [m EXCEPT !.pc = RecalcSequence("begin"),
                 !.oi = NextFilled(m.olist, from),
                 !.clist = <<>>, !.cj = 0, !.k = 0]

\* a recompute starts whenever the scan goes on to a Filled entry
BumpRc(c, list, from) ==
  IF NextFilled(list, from) # 0 THEN [c EXCEPT !.rc = @ + 1] ELSE c

\* the main thread after stage of the recompute: the stage that follows, or
\* back to the scan when the recompute is over (ret: it returned early)
AfterStage(m, stage, ret) ==
  IF ret \/ RecalcSequence(stage) = "end"
  THEN ToNextFilled([m EXCEPT !.basis = 0], m.oi + 1)
  ELSE [m EXCEPT !.pc = RecalcSequence(stage), !.clist = <<>>, !.cj = 0, !.k = 1]

CountAfterStage(c, m, stage, ret) ==
  IF ret \/ RecalcSequence(stage) = "end"
  THEN BumpRc(c, m.olist, m.oi + 1)
  ELSE c

\* monitor_positions going on to check_executed_orders after a failed query
monitor_positions_IgnoresFailure(out) ==
  /\ MainFree /\ main.pc = "sleep"
  /\ IF ~is_running
     THEN /\ main' = ToIdle(main)
          /\ UNCHANGED <<log, obs, count>>
     ELSE /\ count.tick < MaxTicks /\ Answers(out)
          /\ count' = Counted([count EXCEPT !.tick = @ + 1], out)
          /\ log' = Sent([PositionQuery("tick", 0, 0, exch, out)
                            EXCEPT !.tick = count.tick + 1], out)
          /\ obs' = Append(obs, IF out = "ok" THEN exch.size ELSE -1)
          /\ main' = IF out # "ok" \/ exch.size > 0
                     THEN [main EXCEPT !.pc = "chk_open"]
                     ELSE ToSleep(main)
  /\ UNCHANGED <<is_running, config, start_time, stopf, exch, exited>>

\* monitor_positions going on to check_executed_orders without a position
monitor_positions_IgnoresSize(out) ==
  /\ MainFree /\ main.pc = "sleep"
  /\ IF ~is_running
     THEN /\ main' = ToIdle(main)
          /\ UNCHANGED <<log, obs, count>>
     ELSE /\ count.tick < MaxTicks /\ Answers(out)
          /\ count' = Counted([count EXCEPT !.tick = @ + 1], out)
          /\ log' = Sent([PositionQuery("tick", 0, 0, exch, out)
                            EXCEPT !.tick = count.tick + 1], out)
          /\ obs' = Append(obs, IF out = "ok" THEN exch.size ELSE -1)
          /\ main' = IF out = "ok"
                     THEN [main EXCEPT !.pc = "chk_open"]
                     ELSE ToSleep(main)
  /\ UNCHANGED <<is_running, config, start_time, stopf, exch, exited>>

\* _run_trading_loop: `while self.is_running`, then monitor_positions'
\* position query
monitor_positions(out) ==
  /\ MainFree /\ main.pc = "sleep"
  /\ IF ~is_running
     THEN /\ main' = ToIdle(main)
          /\ UNCHANGED <<log, obs, count>>
     ELSE /\ count.tick < MaxTicks /\ Answers(out)
          /\ count' = Counted([count EXCEPT !.tick = @ + 1], out)
          /\ log' = Sent([PositionQuery("tick", 0, 0, exch, out)
                            EXCEPT !.tick = count.tick + 1], out)
          /\ obs' = Append(obs, IF out = "ok" THEN exch.size ELSE -1)
          /\ main' = IF out = "ok" /\ exch.size > 0
                     THEN [main EXCEPT !.pc = "chk_open"]
                     ELSE ToSleep(main)
  /\ UNCHANGED <<is_running, config, start_time, stopf, exch, exited>>

\* check_executed_orders: the open-orders query and the scan for Filled
check_executed_orders(out) ==
  /\ MainFree /\ main.pc = "chk_open" /\ Answers(out)
  /\ log' = Sent(OrdersQuery("tick", 0, 0, exch, out), out)
  /\ main' = IF out = "ok"
             THEN ToNextFilled([main EXCEPT !.olist = exch.orders], 1)
             ELSE ToSleep(main)
  /\ count' = IF out = "ok" THEN BumpRc(count, exch.orders, 1)
              ELSE Counted(count, out)
  /\ UNCHANGED <<is_running, config, start_time, stopf, exch, obs, exited>>

\* the orders cancel_tp_orders selects from the list it is given
LimitOrders(list) == SelectSeq(list, LAMBDA o : o.orderType = "Limit")

\* cancel_tp_orders: the open-orders query; a failure skips the cancels
cancel_tp_orders_query(out) ==
  /\ MainFree /\ main.pc = "rc_open" /\ Answers(out)
  /\ log' = Sent(OrdersQuery("tick", count.rc, 0, exch, out), out)
  /\ IF out = "ok" /\ LimitOrders(exch.orders) # <<>>
     THEN /\ main' = [main EXCEPT !.pc = "rc_cancel",
                                  !.clist = LimitOrders(exch.orders), !.cj = 1]
          /\ count' = count
     ELSE /\ main' = AfterStage(main, "rc_open", FALSE)
          /\ count' = CountAfterStage(Counted(count, out), main, "rc_open", FALSE)
  /\ UNCHANGED <<is_running, config, start_time, stopf, exch, obs, exited>>

\* cancel_tp_orders letting the raise of a cancel end the recompute
cancel_tp_orders_cancel_EndsRecompute(out) ==
  /\ MainFree /\ main.pc = "rc_cancel"
  /\ LET id == main.clist[main.cj].orderId
         c == CancelCounted(count, exch, id, out)
     IN  /\ CancelAnswers(exch, id, out)
         /\ log' = Sent(Cancel("tick", count.rc, 0, id), out)
         /\ exch' = IF out = "ok" THEN RemoveOrder(exch, id) ELSE exch
         /\ IF out = "exc" \/ main.cj = Len(main.clist)
            THEN /\ main' = AfterStage(main, "rc_open", out = "exc")
                 /\ count' = CountAfterStage(c, main, "rc_open", out = "exc")
            ELSE /\ main' = [main EXCEPT !.cj = @ + 1]
                 /\ count' = c
  /\ UNCHANGED <<is_running, config, start_time, stopf, obs, exited>>

\* cancel_tp_orders: one cancel per step; a raise leaves the loop, an error
\* result is not looked at
cancel_tp_orders_cancel(out) ==
  /\ MainFree /\ main.pc = "rc_cancel"
  /\ LET id == main.clist[main.cj].orderId
         c == CancelCounted(count, exch, id, out)
     IN  /\ CancelAnswers(exch, id, out)
         /\ log' = Sent(Cancel("tick", count.rc, 0, id), out)
         /\ exch' = IF out = "ok" THEN RemoveOrder(exch, id) ELSE exch
         /\ IF out = "exc" \/ main.cj = Len(main.clist)
            THEN /\ main' = AfterStage(main, "rc_open", FALSE)
                 /\ count' = CountAfterStage(c, main, "rc_open", FALSE)
            ELSE /\ main' = [main EXCEPT !.cj = @ + 1]
                 /\ count' = c
  /\ UNCHANGED <<is_running, config, start_time, stopf, obs, exited>>

\* calculate_new_avg_price / get_current_position_info: the basis is the
\* avgPrice the exchange reports; no position or a failure ends the recompute
calculate_new_avg_price(out) ==
  /\ MainFree /\ main.pc = "rc_pos" /\ Answers(out)
  /\ log' = Sent(PositionQuery("tick", count.rc, 0, exch, out), out)
  /\ LET ret == ~(out = "ok" /\ exch.size > 0 /\ exch.avg # 0)
         m == [main EXCEPT !.basis = IF ret THEN 0 ELSE exch.avg]
     IN  /\ main' = AfterStage(m, "rc_pos", ret)
         /\ count' = CountAfterStage(Counted(count, out), m, "rc_pos", ret)
  /\ UNCHANGED <<is_running, config, start_time, stopf, exch, obs, exited>>

\* recalculate_tp_orders: place_tp_orders(config, new_avg_price), a leg per step
recalculate_tp_orders(out) ==
  /\ MainFree /\ main.pc = "rc_tp" /\ Answers(out)
  /\ LET r == TpRequest("tick", count.rc, main.k, main.basis)
     IN  /\ log' = Sent(r, out)
         /\ exch' = IF out = "ok" THEN AddOrder(exch, r.side, r.qty, r.price)
                    ELSE exch
         /\ IF main.k < Len(config.tp_orders)
            THEN /\ main' = [main EXCEPT !.k = @ + 1]
                 /\ count' = Counted(count, out)
            ELSE /\ main' = AfterStage(main, "rc_tp", FALSE)
                 /\ count' = CountAfterStage(Counted(count, out), main, "rc_tp", FALSE)
  /\ UNCHANGED <<is_running, config, start_time, stopf, obs, exited>>

\* ------------------------------------------------------------------ stop
Signals == {"sig1", "sig2"}

\* a frame runs unless the process exited or a later handler sits on top of it
Runnable(s) ==
  /\ ~exited
  /\ stopf[s].pc # "none"
  /\ s = "sig1" => stopf["sig2"].pc = "none"

\* the flattening order on the side of the position itself
close_side_Same(side) == IF side = "short" THEN "Sell" ELSE "Buy"

\* the side of the flattening order (close_all_positions)
close_side(side) == IF side = "short" THEN "Buy" ELSE "Sell"

\* stop() returning without clearing is_running
Finish_StillRunning(s) ==
  /\ is_running' = is_running
  /\ stopf' = [stopf EXCEPT ![s] = [NoFrame EXCEPT !.last = "done"]]
  /\ exited' = (s \in Signals)

\* stop() returns: is_running = False; in the signal handler sys.exit(0) follows
Finish(s) ==
  /\ is_running' = FALSE
  /\ stopf' = [stopf EXCEPT ![s] = [NoFrame EXCEPT !.last = "done"]]
  /\ exited' = (s \in Signals)

\* stop() without its `if not self.is_running: return`
StopEnter_NoGuard(s) ==
  /\ count' = [count EXCEPT !.inv = @ + 1]
  /\ stopf' = [stopf EXCEPT ![s] = [NoFrame EXCEPT !.pc = "st_getpos",
                                                    !.inv = count.inv + 1]]
  /\ UNCHANGED <<is_running, exited>>

\* a handler whose sys.exit(0) comes before its stop() has run
StopEnter_ExitFirst(s) ==
  IF ~is_running
  THEN /\ stopf' = [stopf EXCEPT ![s] = [NoFrame EXCEPT !.last = "noop"]]
       /\ exited' = (s \in Signals)
       /\ UNCHANGED <<is_running, count>>
  ELSE /\ count' = [count EXCEPT !.inv = @ + 1]
       /\ stopf' = [stopf EXCEPT ![s] = [NoFrame EXCEPT !.pc = "st_getpos",
                                                         !.inv = count.inv + 1]]
       /\ exited' = (s \in Signals)
       /\ UNCHANGED is_running

\* stop() is entered: nothing happens unless the engine is running
StopEnter(s) ==
  IF ~is_running
  THEN /\ stopf' = [stopf EXCEPT ![s] = [NoFrame EXCEPT !.last = "noop"]]
       /\ exited' = (s \in Signals)
       /\ UNCHANGED <<is_running, count>>
  ELSE /\ count' = [count EXCEPT !.inv = @ + 1]
       /\ stopf' = [stopf EXCEPT ![s] = [NoFrame EXCEPT !.pc = "st_getpos",
                                                         !.inv = count.inv + 1]]
       /\ UNCHANGED <<is_running, exited>>

\* stop() called by another caller than the thread inside start()
stop ==
  /\ ~exited /\ stopf["caller"].pc = "none"
  /\ StopEnter("caller")
  /\ UNCHANGED <<config, start_time, main, exch, log, obs>>

\* _signal_handler: SIGINT or SIGTERM interrupts the main thread; a second
\* signal interrupts the handler of the first
signal_handler(s) ==
  /\ ~exited /\ stopf[s].pc = "none"
  /\ IF s = "sig1" THEN ~HandlerActive ELSE stopf["sig1"].pc # "none"
  /\ StopEnter(s)
  /\ UNCHANGED <<config, start_time, main, exch, log, obs>>

\* close_all_positions: the position query
close_all_positions_query(s, out) ==
  /\ Runnable(s) /\ stopf[s].pc = "st_getpos" /\ Answers(out)
  /\ log' = Sent(PositionQuery(s, 0, stopf[s].inv, exch, out), out)
  /\ count' = Counted(count, out)
  /\ IF out = "exc"
     THEN Finish(s)
     ELSE /\ stopf' = IF out = "ok" /\ exch.size > 0
                      THEN [stopf EXCEPT ![s].pc = "st_flat", ![s].size = exch.size]
                      ELSE [stopf EXCEPT ![s].pc = "st_open"]
          /\ UNCHANGED <<is_running, exited>>
  /\ UNCHANGED <<config, start_time, main, exch, obs>>

\* close_all_positions: the market order for the size the query reported
close_all_positions_flatten(s, out) ==
  /\ Runnable(s) /\ stopf[s].pc = "st_flat" /\ Answers(out)
  /\ log' = Sent(Place(s, 0, stopf[s].inv, "Market", close_side(config.side),
                              stopf[s].size, 0, "IOC", 0, <<0, 1>>), out)
  /\ count' = Counted(count, out)
  /\ exch' = IF out = "ok"
             THEN ApplyFill(exch, close_side(config.side), stopf[s].size, exch.avg)
             ELSE exch
  /\ IF out = "exc"
     THEN Finish(s)
     ELSE /\ stopf' = [stopf EXCEPT ![s].pc = "st_open", ![s].size = 0]
          /\ UNCHANGED <<is_running, exited>>
  /\ UNCHANGED <<config, start_time, main, obs>>

\* cancel_all_orders: the open-orders query
cancel_all_orders_query(s, out) ==
  /\ Runnable(s) /\ stopf[s].pc = "st_open" /\ Answers(out)
  /\ log' = Sent(OrdersQuery(s, 0, stopf[s].inv, exch, out), out)
  /\ count' = Counted(count, out)
  /\ IF out = "ok" /\ exch.orders # <<>>
     THEN /\ stopf' = [stopf EXCEPT ![s].pc = "st_cancel",
                                    ![s].list = exch.orders, ![s].j = 1]
          /\ UNCHANGED <<is_running, exited>>
     ELSE Finish(s)
  /\ UNCHANGED <<config, start_time, main, exch, obs>>

\* cancel_all_orders: one cancel per step, each in its own try
cancel_all_orders_cancel(s, out) ==
  /\ Runnable(s) /\ stopf[s].pc = "st_cancel"
  /\ LET id == stopf[s].list[stopf[s].j].orderId
     IN  /\ CancelAnswers(exch, id, out)
         /\ log' = Sent(Cancel(s, 0, stopf[s].inv, id), out)
         /\ exch' = IF out = "ok" THEN RemoveOrder(exch, id) ELSE exch
         /\ count' = CancelCounted(count, exch, id, out)
  /\ IF stopf[s].j < Len(stopf[s].list)
     THEN /\ stopf' = [stopf EXCEPT ![s].j = @ + 1]
          /\ UNCHANGED <<is_running, exited>>
     ELSE Finish(s)
  /\ UNCHANGED <<config, start_time, main, obs>>

\* ------------------------------------------------------------- exchange
\* the exchange after its resting order i executed at its price; the order
\* list then shows it as Filled (keep) or no longer shows it
FillAt(e, i, keep) ==
  LET o == e.orders[i]
      f == ApplyFill(e, o.side, o.qty, o.price)
  IN  [f EXCEPT !.orders = IF keep THEN [@ EXCEPT ![i].orderStatus = "Filled"]
                           ELSE RemoveAt(@, i)]

exchange_fill(i, keep) ==
  /\ ~exited
  /\ count.fills < MaxFills
  /\ i \in 1 .. Len(exch.orders)
  /\ exch.orders[i].orderStatus = "New"
  /\ exch' = FillAt(exch, i, keep)
  /\ count' = [count EXCEPT !.fills = @ + 1]
  /\ UNCHANGED <<is_running, config, start_time, main, stopf, log, obs, exited>>

\* the thread inside start()
EngineStep ==
  \/ \E file \in ConfigFiles \cup {NoConfig} : start(file)
  \/ \E out \in Outcomes, p \in TickerPrices : run_get_current_price(out, p)
  \/ \E out \in Outcomes : open_position_set_leverage(out)
  \/ \E out \in Outcomes, p \in TickerPrices : open_position_get_price(out, p)
  \/ \E out \in Outcomes : open_position_place_order(out)
  \/ \E out \in Outcomes : place_tp_orders(out)
  \/ \E out \in Outcomes : place_dca_orders(out)

TickStep ==
  \/ \E out \in Outcomes : monitor_positions(out)
  \/ \E out \in Outcomes : check_executed_orders(out)
  \/ \E out \in Outcomes : cancel_tp_orders_query(out)
  \/ \E out \in Outcomes : cancel_tp_orders_cancel(out)
  \/ \E out \in Outcomes : calculate_new_avg_price(out)
  \/ \E out \in Outcomes : recalculate_tp_orders(out)

\* the steps of stop() in frame s
StopStep(s) ==
  \/ \E out \in Outcomes : close_all_positions_query(s, out)
  \/ \E out \in Outcomes : close_all_positions_flatten(s, out)
  \/ \E out \in Outcomes : cancel_all_orders_query(s, out)
  \/ \E out \in Outcomes : cancel_all_orders_cancel(s, out)

ExchangeStep == \E i \in 1 .. 4, keep \in BOOLEAN : exchange_fill(i, keep)

\* one run of the engine in the main thread, ended by a signal
Next ==
  \/ EngineStep
  \/ TickStep
  \/ signal_handler("sig1")
  \/ StopStep("sig1")
  \/ ExchangeStep

Spec == Init /\ [][Next]_vars

\* _signal_handler runs on the main thread until its sys.exit(0): once
\* entered, its stop() goes on whenever it can
FairSpec == Spec /\ WF_vars(StopStep("sig1"))

\* ------------------------------------------------ SimpleTradingEngine (main.py)
Simple_min_qty == 1

Simple_api_side(side) == IF side = "short" THEN "Sell" ELSE "Buy"

Simple_tp_side(side) == IF side = "short" THEN "Buy" ELSE "Sell"

\* round(amount / price, 3) with the floor min_qty; amount and price are
\* pairs <<num, den>> in hundredths of the quote currency
Simple_qty(amount, price) ==
  LET qty == RoundDiv(amount[1] * QtyScale * price[2], amount[2] * price[1])
  IN  IF qty < Simple_min_qty THEN Simple_min_qty ELSE qty

\* a configuration for an instrument quoted near 100.00
SimpleConfig(side) ==
  [FullConfig(side) EXCEPT !.market_order_amount = 10, !.limit_orders_amount = 3]

SimplePrices == {10000}

\* what config.json may hold for run()
SimpleConfigFiles == {SimpleConfig("long"), SimpleConfig("short"), NoConfig}

SimpleSleep(m) == [MainInit EXCEPT !.pc = "s_sleep", !.price = m.price]

SimpleDone(m) == [MainInit EXCEPT !.pc = "s_done"]

\* run(): load_config(), no validation
Simple_run(file) ==
  /\ main.pc = "idle" /\ count.runs < MaxRuns
  /\ count' = [count EXCEPT !.runs = @ + 1]
  /\ IF file.loaded
     THEN config' = file /\ main' = [main EXCEPT !.pc = "s_price"]
     ELSE config' = config /\ main' = SimpleDone(main)
  /\ UNCHANGED <<is_running, start_time, stopf, exch, log, obs, exited>>

\* run(): current_price = get_current_price(symbol)
Simple_get_current_price(out, p) ==
  /\ main.pc = "s_price" /\ Answers(out)
  /\ log' = Sent(Req("get_tickers", "simple", 0, 0), out)
  /\ main' = IF out = "ok" THEN [main EXCEPT !.pc = "s_leverage", !.price = p]
             ELSE SimpleDone(main)
  /\ count' = Counted(count, out)
  /\ UNCHANGED <<is_running, config, start_time, stopf, exch, obs, exited>>

\* open_position: set_leverage in its own try
Simple_open_position_set_leverage(out) ==
  /\ main.pc = "s_leverage" /\ Answers(out)
  /\ log' = Sent(Req("set_leverage", "simple", 0, 0), out)
  /\ main' = [main EXCEPT !.pc = "s_open_price"]
  /\ count' = Counted(count, out)
  /\ UNCHANGED <<is_running, config, start_time, stopf, exch, obs, exited>>

\* open_position: the price for the quantity (kept in basis)
Simple_open_position_get_price(out, p) ==
  /\ main.pc = "s_open_price" /\ Answers(out)
  /\ log' = Sent(Req("get_tickers", "simple", 0, 0), out)
  /\ main' = IF out = "ok" THEN [main EXCEPT !.pc = "s_market", !.basis = p]
             ELSE SimpleDone(main)
  /\ count' = Counted(count, out)
  /\ UNCHANGED <<is_running, config, start_time, stopf, exch, obs, exited>>

Simple_MarketRequest(price) ==
  Place("simple", 0, 0, "Market", Simple_api_side(config.side),
        Simple_qty(<<config.market_order_amount * 100, 1>>, <<price, 1>>),
        0, "IOC", 0,
        <<0, 1>>)

\* open_position: the market order; only a raise makes run() return
Simple_open_position_place_order(out) ==
  /\ main.pc = "s_market" /\ Answers(out)
  /\ LET r == Simple_MarketRequest(main.basis)
     IN  /\ log' = Sent(r, out)
         /\ exch' = IF out = "ok" THEN ApplyFill(exch, r.side, r.qty, main.basis)
                    ELSE exch
  /\ main' = IF out = "exc" THEN SimpleDone(main)
             ELSE [main EXCEPT !.pc = "s_tp", !.k = 1, !.basis = 0]
  /\ count' = Counted(count, out)
  /\ UNCHANGED <<is_running, config, start_time, stopf, obs, exited>>

\* TP leg k against avg_price (the pair <<num, den>>): the price is
\* avg_price * (1 + price_percent / 100) for either side, sent unrounded;
\* the request keeps it in hundredths
Simple_TpRequest(rc, k, avg_price) ==
  LET tp == config.tp_orders[k]
  IN  [Place("simple", rc, 0, "Limit", Simple_tp_side(config.side),
             Simple_qty(<<config.market_order_amount * tp.quantity_percent, 1>>,
                        avg_price),
             RoundDiv(avg_price[1] * (100 + tp.price_percent), avg_price[2] * 100),
             "GTC", k, avg_price) EXCEPT !.ladder = "tp"]

\* place_tp_orders(config, current_price): a leg per step, each in its try
Simple_place_tp_orders(out) ==
  /\ main.pc = "s_tp" /\ Answers(out)
  /\ LET r == Simple_TpRequest(0, main.k, <<main.price, 1>>)
     IN  /\ log' = Sent(r, out)
         /\ exch' = IF out = "ok" THEN AddOrder(exch, r.side, r.qty, r.price)
                    ELSE exch
  /\ main' = IF main.k < Len(config.tp_orders) THEN [main EXCEPT !.k = @ + 1]
             ELSE [main EXCEPT !.pc = "s_dca", !.k = 1]
  /\ count' = Counted(count, out)
  /\ UNCHANGED <<is_running, config, start_time, stopf, obs, exited>>

\* DCA leg k: price_step below (long) or above (short) current_price
Simple_DcaRequest(k, current_price) ==
  LET n == config.orders_count
      num == IF config.side = "short"
             THEN current_price * (100 * n + config.range_percent * k)
             ELSE current_price * (100 * n - config.range_percent * k)
      dca_price == <<num, 100 * n>>
  IN  [Place("simple", 0, 0, "Limit", Simple_api_side(config.side),
             Simple_qty(<<config.limit_orders_amount * 100, n>>, dca_price),
             RoundDiv(dca_price[1], dca_price[2]), "GTC", k,
             <<current_price, 1>>) EXCEPT !.ladder = "dca"]

\* place_dca_orders(config, current_price): a leg per step, each in its try
Simple_place_dca_orders(out) ==
  /\ main.pc = "s_dca" /\ Answers(out)
  /\ LET r == Simple_DcaRequest(main.k, main.price)
     IN  /\ log' = Sent(r, out)
         /\ exch' = IF out = "ok" THEN AddOrder(exch, r.side, r.qty, r.price)
                    ELSE exch
  /\ main' = IF main.k < config.orders_count THEN [main EXCEPT !.k = @ + 1]
             ELSE SimpleSleep(main)
  /\ count' = Counted(count, out)
  /\ UNCHANGED <<is_running, config, start_time, stopf, obs, exited>>

\* monitor_positions / get_current_position_info: size and avg_price of the
\* position are kept (in k and basis) for the tick
Simple_monitor_positions(out) ==
  /\ main.pc = "s_sleep" /\ count.tick < MaxTicks /\ Answers(out)
  /\ count' = Counted([count EXCEPT !.tick = @ + 1], out)
  /\ log' = Sent([PositionQuery("simple", 0, 0, exch, out)
                    EXCEPT !.tick = count.tick + 1], out)
  /\ obs' = Append(obs, IF out = "ok" THEN exch.size ELSE -1)
  /\ main' = IF out = "ok" /\ exch.size > 0
             THEN [main EXCEPT !.pc = "s_chk_open", !.k = exch.size,
                               !.basis = exch.avg]
             ELSE SimpleSleep(main)
  /\ UNCHANGED <<is_running, config, start_time, stopf, exch, exited>>

\* check_executed_orders: the open-orders query, its answer unused
Simple_check_executed_orders_open(out) ==
  /\ main.pc = "s_chk_open" /\ Answers(out)
  /\ log' = Sent(OrdersQuery("simple", 0, 0, exch, out), out)
  /\ main' = IF out = "exc" THEN SimpleSleep(main)
             ELSE [main EXCEPT !.pc = "s_chk_hist"]
  /\ count' = Counted(count, out)
  /\ UNCHANGED <<is_running, config, start_time, stopf, exch, obs, exited>>

RECURSIVE SumValue(_, _)
\* the sum of qty * avgPrice over executed_orders[i..]
SumValue(orders, i) ==
  IF i > Len(orders) THEN 0
  ELSE orders[i].qty * orders[i].avgPrice + SumValue(orders, i + 1)

RECURSIVE SumSize(_, _)
SumSize(orders, i) ==
  IF i > Len(orders) THEN 0 ELSE orders[i].qty + SumSize(orders, i + 1)

\* SimpleTradingEngine.calculate_new_avg_price: total_value / total_size as
\* the pair <<total_value, total_size>>
Simple_calculate_new_avg_price(size, avg_price, executed_orders) ==
  IF executed_orders = <<>> THEN <<avg_price, 1>>
  ELSE LET total_size == size + SumSize(executed_orders, 1)
           total_value == size * avg_price + SumValue(executed_orders, 1)
       IN  IF total_size > 0 THEN <<total_value, total_size>>
           ELSE <<avg_price, 1>>

\* check_executed_orders: the order history, the Filled entries of it; then
\* monitor_positions compares new_avg_price with the reported avg_price
Simple_check_executed_orders_history(out) ==
  /\ main.pc = "s_chk_hist" /\ Answers(out)
  /\ log' = Sent(Req("get_order_history", "simple", 0, 0), out)
  /\ LET executed_orders ==
           IF out = "ok"
           THEN SelectSeq(exch.history, LAMBDA o : o.orderStatus = "Filled")
           ELSE <<>>
         new_avg_price ==
           Simple_calculate_new_avg_price(main.k, main.basis, executed_orders)
         changed == /\ executed_orders # <<>>
                    /\ new_avg_price[1] # main.basis * new_avg_price[2]
     IN  /\ main' = IF changed
                    THEN [main EXCEPT !.pc = "s_rc_open", !.local = new_avg_price]
                    ELSE SimpleSleep(main)
         /\ count' = IF changed THEN [Counted(count, out) EXCEPT !.rc = @ + 1]
                     ELSE Counted(count, out)
  /\ UNCHANGED <<is_running, config, start_time, stopf, exch, obs, exited>>

SimpleToTp(m) == [m EXCEPT !.pc = "s_rc_tp", !.k = 1, !.clist = <<>>, !.cj = 0]

\* cancel_tp_orders: the open-orders query; its failure is ignored
Simple_cancel_tp_orders_query(out) ==
  /\ main.pc = "s_rc_open" /\ Answers(out)
  /\ log' = Sent(OrdersQuery("simple", count.rc, 0, exch, out), out)
  /\ main' = IF out = "ok" /\ LimitOrders(exch.orders) # <<>>
             THEN [main EXCEPT !.pc = "s_rc_cancel",
                               !.clist = LimitOrders(exch.orders), !.cj = 1]
             ELSE SimpleToTp(main)
  /\ count' = Counted(count, out)
  /\ UNCHANGED <<is_running, config, start_time, stopf, exch, obs, exited>>

\* cancel_tp_orders: one cancel per step; a raise leaves the loop
Simple_cancel_tp_orders_cancel(out) ==
  /\ main.pc = "s_rc_cancel"
  /\ LET id == main.clist[main.cj].orderId
     IN  /\ CancelAnswers(exch, id, out)
         /\ log' = Sent(Cancel("simple", count.rc, 0, id), out)
         /\ exch' = IF out = "ok" THEN RemoveOrder(exch, id) ELSE exch
         /\ count' = CancelCounted(count, exch, id, out)
  /\ main' = IF out = "exc" \/ main.cj = Len(main.clist) THEN SimpleToTp(main)
             ELSE [main EXCEPT !.cj = @ + 1]
  /\ UNCHANGED <<is_running, config, start_time, stopf, obs, exited>>

\* recalculate_tp_orders(config, new_avg_price): a leg per step
Simple_recalculate_tp_orders(out) ==
  /\ main.pc = "s_rc_tp" /\ Answers(out)
  /\ LET r == Simple_TpRequest(count.rc, main.k, main.local)
     IN  /\ log' = Sent(r, out)
         /\ exch' = IF out = "ok" THEN AddOrder(exch, r.side, r.qty, r.price)
                    ELSE exch
  /\ main' = IF main.k < Len(config.tp_orders) THEN [main EXCEPT !.k = @ + 1]
             ELSE SimpleSleep(main)
  /\ count' = Counted(count, out)
  /\ UNCHANGED <<is_running, config, start_time, stopf, obs, exited>>

SimpleOpening ==
  \/ \E file \in SimpleConfigFiles : Simple_run(file)
  \/ \E out \in Outcomes, p \in SimplePrices : Simple_get_current_price(out, p)
  \/ \E out \in Outcomes : Simple_open_position_set_leverage(out)
  \/ \E out \in Outcomes, p \in SimplePrices : Simple_open_position_get_price(out, p)
  \/ \E out \in Outcomes : Simple_open_position_place_order(out)
  \/ \E out \in Outcomes : Simple_place_tp_orders(out)
  \/ \E out \in Outcomes : Simple_place_dca_orders(out)

SimpleTick ==
  \/ \E out \in Outcomes : Simple_monitor_positions(out)
  \/ \E out \in Outcomes : Simple_check_executed_orders_open(out)
  \/ \E out \in Outcomes : Simple_check_executed_orders_history(out)
  \/ \E out \in Outcomes : Simple_cancel_tp_orders_query(out)
  \/ \E out \in Outcomes : Simple_cancel_tp_orders_cancel(out)
  \/ \E out \in Outcomes : Simple_recalculate_tp_orders(out)

NextSimple == SimpleOpening \/ SimpleTick \/ ExchangeStep

SpecSimple == Init /\ [][NextSimple]_vars

\* ------------------------------------------------- the engine in Monitoring
\* The state _run_trading_loop reaches when every request of the opening
\* succeeded at price p: position open, both ladders resting, loop asleep.
Ok0(r) == [r EXCEPT !.tick = 0, !.out = "ok"]

OpenedLog(p) ==
  << Ok0(Ticker("start", p, "ok")), Ok0(Req("set_leverage", "start", 0, 0)),
     Ok0(Ticker("start", p, "ok")), Ok0(MarketRequest(p)),
     Ok0(TpRequest("start", 0, 1, p)), Ok0(TpRequest("start", 0, 2, p)),
     Ok0(DcaRequest(1, p)), Ok0(DcaRequest(2, p)) >>

RECURSIVE Rest(_, _, _)
\* the exchange after the limit orders of requests rs[i..] were accepted
Rest(e, rs, i) ==
  IF i > Len(rs) THEN e
  ELSE Rest(AddOrder(e, rs[i].side, rs[i].qty, rs[i].price), rs, i + 1)

OpenedExchange(p) ==
  Rest(ApplyFill([size |-> INITIAL_POSITION_SIZE, side |-> "None", avg |-> 0,
                  orders |-> <<>>, nextId |-> 1, history |-> <<>>],
                 MarketRequest(p).side, MarketRequest(p).qty, p),
       OpenedLog(p), 5)

\* the program state in Monitoring (the counters apart), the exchange in e
MonitoringAt(cfg, p, e) ==
  /\ is_running = TRUE
  /\ config = cfg
  /\ start_time = 1
  /\ main = [MainInit EXCEPT !.pc = "sleep", !.price = p]
  /\ stopf = [s \in Stoppers |-> NoFrame]
  /\ exch = e
  /\ log = OpenedLog(p)
  /\ obs = <<>>
  /\ exited = FALSE

Monitoring(cfg, p) == MonitoringAt(cfg, p, OpenedExchange(p))

\* stop() alone: on an engine never started, in Monitoring, or in Monitoring
\* after both TP legs executed and closed the position. The loop sleeps (its
\* ticks are used up); the exchange may fail every request of stop().
InitStop ==
  \/ Init
  \/ /\ count = [tick |-> MaxTicks, rc |-> 0, inv |-> 0, runs |-> 1,
                 fills |-> 0, allow |-> StopFailures]
     /\ \E cfg \in {FullConfig("long"), FullConfig("short")}, p \in TickerPrices :
          Monitoring(cfg, p)
  \/ /\ count = [tick |-> MaxTicks, rc |-> 0, inv |-> 0, runs |-> 1,
                 fills |-> MaxFills, allow |-> StopFailures]
     /\ \E cfg \in {FullConfig("long"), FullConfig("short")}, p \in TickerPrices :
          MonitoringAt(cfg, p, FillAt(FillAt(OpenedExchange(p), 1, FALSE), 1, FALSE))

NextStop ==
  \/ \E out \in Outcomes : monitor_positions(out)
  \/ stop
  \/ StopStep("caller")
  \/ ExchangeStep

SpecStop == InitStop /\ [][NextStop]_vars

\* every call of stop() returns to its caller, so an entered stop() goes on
FairSpecStop == SpecStop /\ WF_vars(StopStep("caller"))

\* stop() from another thread while the loop polls its last tick: the first
\* DCA leg has executed and the order list still shows it; the exchange
\* fails nothing and fills nothing more
InitThreads ==
  /\ count = [tick |-> MaxTicks - 1, rc |-> 0, inv |-> 0, runs |-> 1,
              fills |-> MaxFills, allow |-> 0]
  /\ \E p \in TickerPrices :
       MonitoringAt(FullConfig("long"), p, FillAt(OpenedExchange(p), 3, TRUE))

NextThreads ==
  \/ TickStep
  \/ stop
  \/ StopStep("caller")

SpecThreads == InitThreads /\ [][NextThreads]_vars

\* ------------------------------------------------ the ladders on their own
\* what config.json may hold for the ladders: either side, a narrow and a
\* wide range, two to MaxOrders DCA legs
LadderConfigs ==
  {[FullConfig(sd) EXCEPT !.range_percent = rp, !.orders_count = n] :
     sd \in {"long", "short"}, rp \in {1, 5}, n \in 2 .. MaxOrders}

\* last prices in hundredths: 50000.00, 3.33 and 0.05
LadderPrices == {5000000, 333, 5}

\* _run_trading_loop after open_position returned the accepted market order
\* at price p; the exchange may fail every leg
InitLadder ==
  /\ count = [tick |-> MaxTicks, rc |-> 0, inv |-> 0, runs |-> 1,
              fills |-> MaxFills, allow |-> MaxOrders + 2]
  /\ \E cfg \in LadderConfigs, p \in LadderPrices :
       /\ is_running = TRUE
       /\ config = cfg
       /\ start_time = 1
       /\ main = ToTp([MainInit EXCEPT !.price = p])
       /\ stopf = [s \in Stoppers |-> NoFrame]
       /\ exch = ApplyFill([size |-> INITIAL_POSITION_SIZE, side |-> "None",
                            avg |-> 0, orders |-> <<>>, nextId |-> 1,
                            history |-> <<>>],
                           MarketRequest(p).side, MarketRequest(p).qty, p)
       /\ log = SubSeq(OpenedLog(p), 1, 4)
       /\ obs = <<>>
       /\ exited = FALSE

NextLadder ==
  \/ \E out \in Outcomes : place_tp_orders(out)
  \/ \E out \in Outcomes : place_dca_orders(out)

SpecLadder == InitLadder /\ [][NextLadder]_vars

\* ------------------------------------- cancelling among orders of any type
\* the exchange with one more open order on the symbol that is not of type
\* Limit and is not the engine's
WithForeignOrder(e) ==
  [e EXCEPT !.orders = Append(@, [orderId |-> e.nextId, orderType |-> "Market",
                                   orderStatus |-> "New", side |-> "Sell",
                                   qty |-> 1, price |-> 0]),
            !.nextId = @ + 1]

\* Monitoring with the first DCA leg executed and still listed, beside an
\* open order of another type; one poll tick is left and a request may fail
InitCancel ==
  /\ count = [tick |-> MaxTicks - 1, rc |-> 0, inv |-> 0, runs |-> 1,
              fills |-> MaxFills, allow |-> MaxFailures]
  /\ \E cfg \in {FullConfig("long"), FullConfig("short")}, p \in TickerPrices :
       MonitoringAt(cfg, p, WithForeignOrder(FillAt(OpenedExchange(p), 3, TRUE)))

\* the poll tick with its recompute, and the signal that stops the engine
NextCancel ==
  \/ TickStep
  \/ signal_handler("sig1")
  \/ StopStep("sig1")

SpecCancel == InitCancel /\ [][NextCancel]_vars

\* ------------------------------------------- a tick after two executions
\* Monitoring with both DCA legs executed and still listed as Filled; one
\* poll tick is left and a request may fail
InitTick ==
  /\ count = [tick |-> MaxTicks - 1, rc |-> 0, inv |-> 0, runs |-> 1,
              fills |-> MaxFills, allow |-> MaxFailures]
  /\ \E cfg \in {FullConfig("long"), FullConfig("short")}, p \in TickerPrices :
       MonitoringAt(cfg, p, FillAt(FillAt(OpenedExchange(p), 3, TRUE), 4, TRUE))

SpecTick == InitTick /\ [][TickStep]_vars

\* ------------------------------------------------- the opening on its own
\* last prices in hundredths: the ticker may move between two queries
OpeningPrices == {5000000, 5100000}

\* start() has accepted the configuration and enters _run_trading_loop
InitOpening ==
  /\ count = [tick |-> 0, rc |-> 0, inv |-> 0, runs |-> 1, fills |-> MaxFills,
              allow |-> MaxFailures]
  /\ \E cfg \in {FullConfig("long"), FullConfig("short")} :
       /\ is_running = TRUE
       /\ config = cfg
       /\ start_time = 1
       /\ main = [MainInit EXCEPT !.pc = "run_price"]
       /\ stopf = [s \in Stoppers |-> NoFrame]
       /\ exch = [size |-> INITIAL_POSITION_SIZE, side |-> "None", avg |-> 0,
                  orders |-> <<>>, nextId |-> 1, history |-> <<>>]
       /\ log = <<>>
       /\ obs = <<>>
       /\ exited = FALSE

\* the opening and the polls that follow it, while no order executes
NextOpening ==
  \/ \E out \in Outcomes, p \in OpeningPrices : run_get_current_price(out, p)
  \/ \E out \in Outcomes : open_position_set_leverage(out)
  \/ \E out \in Outcomes, p \in OpeningPrices : open_position_get_price(out, p)
  \/ \E out \in Outcomes : open_position_place_order(out)
  \/ \E out \in Outcomes : place_tp_orders(out)
  \/ \E out \in Outcomes : place_dca_orders(out)
  \/ \E out \in Outcomes : monitor_positions(out)
  \/ \E out \in Outcomes : check_executed_orders(out)

SpecOpening == InitOpening /\ [][NextOpening]_vars

\* -------------------------------------------- the quantities of the opening
\* what config.json may hold for the amounts, in the quote currency
QuantityConfigs ==
  {[FullConfig(sd) EXCEPT !.market_order_amount = a, !.limit_orders_amount = b] :
     sd \in {"long", "short"}, a \in {1, 7, 1000}, b \in {1, 7, 300}}

\* open_position after it fetched the price p, about to size its market
\* order; one request of the opening may fail
InitQuantity ==
  /\ count = [tick |-> MaxTicks, rc |-> 0, inv |-> 0, runs |-> 1,
              fills |-> MaxFills, allow |-> 1]
  /\ \E cfg \in QuantityConfigs, p \in LadderPrices :
       /\ is_running = TRUE
       /\ config = cfg
       /\ start_time = 1
       /\ main = [MainInit EXCEPT !.pc = "market", !.price = p, !.basis = p]
       /\ stopf = [s \in Stoppers |-> NoFrame]
       /\ exch = [size |-> INITIAL_POSITION_SIZE, side |-> "None", avg |-> 0,
                  orders |-> <<>>, nextId |-> 1, history |-> <<>>]
       /\ log = SubSeq(OpenedLog(p), 1, 3)
       /\ obs = <<>>
       /\ exited = FALSE

NextQuantity ==
  \/ \E out \in Outcomes : open_position_place_order(out)
  \/ \E out \in Outcomes : place_tp_orders(out)
  \/ \E out \in Outcomes : place_dca_orders(out)

SpecQuantity == InitQuantity /\ [][NextQuantity]_vars

\* ------------------------------------------------ two termination signals
\* The engine in Monitoring receives SIGINT or SIGTERM, and a second signal
\* while the handler of the first is inside stop(); the loop sleeps, the
\* exchange may fill one resting order and fail MaxFailures requests.
InitSignals ==
  /\ count = [tick |-> MaxTicks, rc |-> 0, inv |-> 0, runs |-> 1,
              fills |-> 0, allow |-> MaxFailures]
  /\ \E cfg \in {FullConfig("long"), FullConfig("short")}, p \in TickerPrices :
       Monitoring(cfg, p)

NextSignals ==
  \/ signal_handler("sig1")
  \/ signal_handler("sig2")
  \/ StopStep("sig1")
  \/ StopStep("sig2")
  \/ ExchangeStep

SpecSignals == InitSignals /\ [][NextSignals]_vars


\* --------------------------------------------------- start() called again
\* start() from another caller while the loop polls its last tick, and after
\* that caller's stop(); the run of the first caller is the last one counted,
\* the exchange fails nothing and fills nothing
InitStart ==
  /\ count = [tick |-> MaxTicks - 1, rc |-> 0, inv |-> 0, runs |-> MaxRuns,
              fills |-> MaxFills, allow |-> 0]
  /\ \E cfg \in {FullConfig("long"), FullConfig("short")}, p \in TickerPrices :
       Monitoring(cfg, p)

\* what config.json holds at the later call: the other side, a file that
\* fails validation, or no readable file
StartFiles ==
  {FullConfig("short"), Without(FullConfig("long"), "leverage"), NoConfig}

NextStart ==
  \/ \E out \in Outcomes : monitor_positions(out)
  \/ \E out \in Outcomes : check_executed_orders(out)
  \/ \E file \in StartFiles : start_again(file)
  \/ stop
  \/ StopStep("caller")

SpecStart == InitStart /\ [][NextStart]_vars

\* ------------------------------------------------------------- properties
LogIdx == 1 .. Len(log)

\* poll tick t is over: the loop is back at its head, or a later tick began
TickDone(t) == t < count.tick \/ (t = count.tick /\ main.pc = "sleep")

\* the size the poll before tick t observed (the baseline of tick t)
Baseline(t) == IF t = 1 THEN INITIAL_POSITION_SIZE ELSE obs[t - 1]

\* tick t observed a position larger than a non-zero baseline
Grown(t) == obs[t] > Baseline(t) /\ Baseline(t) > 0

\* tick t placed the TP leg k
PlacedTp(t, k) ==
  \E i \in LogIdx : /\ log[i].by = "tick" /\ log[i].tick = t
                    /\ log[i].op = "place_order" /\ log[i].leg = k

NoFailure == \A i \in LogIdx : log[i].out = "ok"

\* the Monitoring state is one the full run reaches
MonitoringUnreached ==
  \A cfg \in {FullConfig("long"), FullConfig("short")}, p \in TickerPrices :
    ~Monitoring(cfg, p)

\* C1: a tick that observes growth over a non-zero baseline places, in that
\* tick, every TP leg (here: in a run where the exchange fails no request)
C1_RecomputeOnGrowth ==
  \A t \in 1 .. Len(obs) :
    (TickDone(t) /\ Grown(t) /\ NoFailure)
      => \A k \in 1 .. Len(config.tp_orders) : PlacedTp(t, k)

\* C2: a tick cancels or places only if it observed growth over a non-zero
\* baseline (here: in a run where the exchange fails no request)
C2_RecomputeOnlyOnGrowth ==
  \A i \in LogIdx :
    (log[i].by = "tick" /\ log[i].op \in {"cancel_order", "place_order"}
       /\ \A h \in 1 .. i : log[h].out = "ok")
      => Grown(log[i].tick)

\* C3: within one recompute no cancel request follows a TP placement
C3_CancelBeforeReplace ==
  \A i \in LogIdx : \A j \in LogIdx :
    (i < j /\ log[i].rc # 0 /\ log[i].rc = log[j].rc
       /\ log[i].op = "place_order")
      => log[j].op # "cancel_order"

\* a recompute that cancelled an old order and then placed a new TP leg
C3_Witness ==
  \E i \in LogIdx : \E j \in LogIdx :
    /\ i < j /\ log[i].rc # 0 /\ log[i].rc = log[j].rc
    /\ log[i].op = "cancel_order" /\ log[i].out = "ok"
    /\ log[j].op = "place_order" /\ log[j].out = "ok"

\* C9: a configuration that lacks a required field sends nothing to the
\* exchange and leaves is_running false
C9_MissingFieldAborts ==
  (config.loaded /\ config.fields # AllFields) => (log = <<>> /\ ~is_running)

\* the price fetch or the market order of the opening failed at index i
OpeningFailedAt(i) ==
  /\ log[i].by = "start" /\ log[i].out # "ok"
  /\ \/ log[i].op = "get_tickers"
     \/ (log[i].op = "place_order" /\ log[i].typ = "Market")

\* C10: once the price fetch or the market order of the opening has failed,
\* the engine thread sends nothing more: no ladder leg, no cancel, no poll
C10_AbortOnOpeningFailure ==
  \A i \in LogIdx : \A j \in LogIdx :
    (OpeningFailedAt(i) /\ i < j) => log[j].by \notin {"start", "tick"}

\* the requests of execution v of stop()
StopIdx(v) == {i \in LogIdx : log[i].inv = v}

Invs == 1 .. count.inv

\* no request of one execution of stop() is sent twice
NoRetry ==
  \A i \in LogIdx : \A j \in LogIdx :
    (i < j /\ log[i].inv # 0 /\ log[i].inv = log[j].inv /\ log[i].op = log[j].op)
      => (log[i].op = "cancel_order" /\ log[i].id # log[j].id)

\* C5: stop() entered on a running engine returns with is_running = FALSE
\* whatever the exchange answers, and sends no request twice
C5_StopCompletes ==
  /\ [][(stopf["caller"].pc # "none" /\ stopf'["caller"].pc = "none")
          => ~is_running']_vars
  /\ (stopf["caller"].pc # "none")
       ~> (stopf["caller"].pc = "none" /\ ~is_running)
  /\ []NoRetry

\* stop() has returned although its position query and a cancel failed
C5_Witness ==
  /\ stopf["caller"].last = "done" /\ ~is_running
  /\ \E i \in LogIdx : \E j \in LogIdx :
       /\ log[i].inv # 0 /\ log[i].op = "get_positions" /\ log[i].out = "err"
       /\ log[j].inv # 0 /\ log[j].op = "cancel_order" /\ log[j].out = "exc"

\* C6: stop() on an engine that is not running sends nothing and changes
\* nothing of the engine, however often it is called
C6_StopIdempotent ==
  [][(~is_running /\ stopf' # stopf)
       => /\ stopf'["caller"].pc = "none"
          /\ UNCHANGED <<is_running, config, start_time, main, exch, log, obs,
                         count, exited>>]_vars

\* stop() was called on an engine already stopped by an earlier stop()
C6_Witness ==
  /\ stopf["caller"].last = "noop" /\ ~is_running
  /\ \E i \in LogIdx : log[i].inv # 0

\* the position query of execution v reported an open position of size n
ReportedOpen(v, n) ==
  \E i \in StopIdx(v) : /\ log[i].op = "get_positions" /\ log[i].out = "ok"
                        /\ log[i].seen = n /\ n > 0

Flatten(i) == log[i].op = "place_order" /\ log[i].inv # 0

C8_NoWorkAfterStop ==
  \A i \in LogIdx : \A j \in LogIdx :
    (i < j /\ log[i].inv # 0) => log[j].by \notin {"start", "tick"}

\* stop() found the position already closed and cancelled the two DCA legs
C7_NoPosition ==
  /\ stopf["caller"].last = "done"
  /\ \E i \in LogIdx : /\ log[i].inv # 0 /\ log[i].op = "get_positions"
                        /\ log[i].out = "ok" /\ log[i].seen = 0
  /\ Cardinality({i \in LogIdx : log[i].inv # 0 /\ log[i].op = "cancel_order"
                                  /\ log[i].out = "ok"}) = 2

\* a recompute of SimpleTradingEngine after a TP leg executed
C4_SimpleRecompute ==
  \E i \in LogIdx : /\ log[i].by = "simple" /\ log[i].rc # 0 /\ log[i].leg # 0
                    /\ log[i].op = "place_order"
                    /\ exch.history[Len(exch.history)].avgPrice = 10500

\* the last position query the engine sent before request i
LastQuery(i) ==
  LET qs == {j \in 1 .. i - 1 : log[j].op = "get_positions" /\ log[j].by = log[i].by}
  IN  IF qs = {} THEN 0 ELSE CHOOSE j \in qs : \A q \in qs : q <= j

\* C4: the basis of every TP leg placed in a recompute is the avgPrice the
\* last position query of the engine reported
C4_BasisIsReportedAverage ==
  \A i \in LogIdx :
    (log[i].op = "place_order" /\ log[i].rc # 0 /\ log[i].leg # 0)
      => /\ LastQuery(i) # 0
         /\ log[LastQuery(i)].out = "ok"
         /\ log[i].basis[1] = log[LastQuery(i)].avg * log[i].basis[2]

\* C11: when start() has returned after a failed price fetch or a market
\* order that could not be placed, is_running is false
C11_IdleAfterAbort ==
  (main.pc = "idle" /\ \E i \in LogIdx : OpeningFailedAt(i)) => ~is_running

\* the loop has been entered: both ladders were gone through
LadderingOver ==
  main.pc \in {"sleep", "chk_open", "rc_open", "rc_cancel", "rc_pos", "rc_tp"}

\* the placements of leg k of ladder l during the opening
StartLegs(l, k) ==
  {i \in LogIdx : /\ log[i].by = "start" /\ log[i].op = "place_order"
                  /\ log[i].ladder = l /\ log[i].leg = k}

MarketOrderOk ==
  \E i \in LogIdx : /\ log[i].by = "start" /\ log[i].typ = "Market"
                    /\ log[i].out = "ok"

\* C12: the opening cancels nothing and places no leg twice; once the market
\* order succeeded and the ladders were gone through, every TP leg and (for
\* a configuration with limit_orders_amount) every DCA leg was placed once,
\* whichever placements failed
C12_EveryLegAttemptedOnce ==
  /\ \A i \in LogIdx : log[i].by = "start" => log[i].op # "cancel_order"
  /\ \A l \in {"tp", "dca"} : \A k \in 1 .. MaxOrders :
       Cardinality(StartLegs(l, k)) <= 1
  /\ (LadderingOver /\ MarketOrderOk) =>
       /\ \A k \in 1 .. Len(config.tp_orders) : Cardinality(StartLegs("tp", k)) = 1
       /\ "limit_orders_amount" \in config.fields =>
            \A k \in 1 .. config.orders_count : Cardinality(StartLegs("dca", k)) = 1

\* TP leg 1 and DCA leg 2 failed, and the legs after each were placed
C12_Witness ==
  /\ LadderingOver /\ MarketOrderOk /\ config.orders_count = 3
  /\ \E i \in StartLegs("tp", 1) : log[i].out = "exc"
  /\ \E i \in StartLegs("tp", 2) : log[i].out = "ok"
  /\ \E i \in StartLegs("dca", 1) : log[i].out = "ok"
  /\ \E i \in StartLegs("dca", 2) : log[i].out = "err"
  /\ \E i \in StartLegs("dca", 3) : log[i].out = "ok"

\* the cancels that follow the open-orders query at index i are over: the
\* recompute went on to its position query, or stop() returned
CancelsOver(i) ==
  IF log[i].rc # 0
  THEN \E j \in LogIdx : /\ i < j /\ log[j].rc = log[i].rc
                         /\ log[j].op = "get_positions"
  ELSE log[i].inv # 0 /\ stopf[log[i].by].pc = "none"

\* C13: in a recompute and in stop() alike, a cancel request is sent for
\* every order the open-orders query listed, whichever of the cancels fail
C13_EveryCancelAttempted ==
  \A i \in LogIdx :
    (log[i].op = "get_open_orders" /\ log[i].out = "ok" /\ CancelsOver(i))
      => \A id \in log[i].ids :
           \E j \in LogIdx : /\ i < j /\ log[j].op = "cancel_order"
                             /\ log[j].id = id /\ log[j].rc = log[i].rc
                             /\ log[j].inv = log[i].inv

\* C14: no exception leaves start(): _run_trading_loop never ends by a raise
C14_NoExceptionEscapes == main.pc # "raised"

\* the request at index i is the position query that opens a poll tick
Poll(i) ==
  log[i].by = "tick" /\ log[i].op = "get_positions" /\ log[i].rc = 0

\* the poll at index i is the only request of its tick
OnlyRequestOfTick(i) ==
  \A j \in LogIdx : (log[j].by = "tick" /\ log[j].tick = log[i].tick) => j = i

\* this step sent a request
Sends == Len(log') = Len(log) + 1

\* the step leaves the engine in Monitoring, at the head of its loop
StaysMonitoring ==
  /\ main'.pc = "sleep" /\ is_running' = is_running /\ config' = config
  /\ exch' = exch /\ start_time' = start_time

\* C15: a poll tick whose position query failed sends nothing else, and the
\* failing step changes neither is_running nor the configuration and leaves
\* the loop at its head for the next tick
C15_FailedPollIsNoOp ==
  /\ [](\A i \in LogIdx : (Poll(i) /\ log[i].out # "ok") => OnlyRequestOfTick(i))
  /\ [][(Sends /\ log'[Len(log')].by = "tick" /\ log'[Len(log')].rc = 0
           /\ log'[Len(log')].op = "get_positions" /\ log'[Len(log')].out # "ok")
          => StaysMonitoring]_vars

\* the first poll failed and the loop went on to poll a second time
C15_Witness ==
  \E i \in LogIdx : \E j \in LogIdx :
    /\ Poll(i) /\ log[i].tick = 1 /\ log[i].out = "exc"
    /\ Poll(j) /\ log[j].tick = 2 /\ log[j].out = "ok" /\ log[j].seen > 0

\* C16: a poll tick that finds no open position sends nothing else and
\* leaves the engine in Monitoring, at the head of its loop
C16_EmptyPollIsIdle ==
  /\ [](\A i \in LogIdx : (Poll(i) /\ log[i].out = "ok" /\ log[i].seen = 0)
                             => OnlyRequestOfTick(i))
  /\ [][(Sends /\ log'[Len(log')].by = "tick" /\ log'[Len(log')].rc = 0
           /\ log'[Len(log')].op = "get_positions" /\ log'[Len(log')].out = "ok"
           /\ log'[Len(log')].seen = 0)
          => StaysMonitoring]_vars

\* two polls in a row found no position while both ladders rest
C16_Witness ==
  /\ Len(exch.orders) = 4
  /\ \E i \in LogIdx : \E j \in LogIdx :
       /\ Poll(i) /\ log[i].tick = 1 /\ log[i].out = "ok" /\ log[i].seen = 0
       /\ Poll(j) /\ log[j].tick = 2 /\ log[j].out = "ok" /\ log[j].seen = 0

\* the DCA legs start() has sent, failed ones included
DcaEntries == {i \in LogIdx : log[i].ladder = "dca" /\ log[i].by = "start"}

\* the current price a DCA leg was planned from
PlannedFrom(i) == log[i].basis[1]

\* C17: every DCA price lies on the adverse side of the entry: for long in
\* [currentPrice*(1-rangePercent/100), currentPrice], for short in
\* [currentPrice, currentPrice*(1+rangePercent/100)], to the cent; with
\* currentPrice 50000, rangePercent 5, ordersCount 3, long the prices are
\* 47500.00, 48750.00, 50000.00
C17_DcaOnAdverseSide ==
  \A i \in DcaEntries :
    LET cur == PlannedFrom(i)
        rp  == config.range_percent
    IN  /\ config.side = "long" =>
             /\ log[i].price <= cur
             /\ 100 * log[i].price + 50 >= cur * (100 - rp)
        /\ config.side = "short" =>
             /\ log[i].price >= cur
             /\ 100 * log[i].price - 50 <= cur * (100 + rp)
        /\ (config.side = "long" /\ cur = 5000000 /\ rp = 5
              /\ config.orders_count = 3) =>
             log[i].price = <<4750000, 4875000, 5000000>>[log[i].leg]

\* the DCA ladder has one entry per planned price, one of its ends is the
\* current price and the other the range boundary to the cent, and every
\* price is within a cent of first + (k-1) * (last - first)/(n-1)
C18_Shape ==
  LET n == config.orders_count
  IN  (LadderingOver /\ DcaEntries # {}) =>
        /\ Cardinality(DcaEntries) = n
        /\ \A i \in DcaEntries : \A j \in DcaEntries :
             (log[i].leg = 1 /\ log[j].leg = n) =>
               LET cur == PlannedFrom(i)
                   rp  == config.range_percent
                   a   == log[i].price
                   b   == log[j].price
               IN  /\ \/ a = cur /\ 100 * b - 50 <= cur * (100 + rp)
                               /\ 100 * b + 50 >= cur * (100 + rp)
                      \/ b = cur /\ 100 * a - 50 <= cur * (100 - rp)
                               /\ 100 * a + 50 >= cur * (100 - rp)
                   /\ \A m \in DcaEntries :
                        LET x == (n - 1) * log[m].price
                            y == (n - 1) * a + (log[m].leg - 1) * (b - a)
                        IN  x - y <= n - 1 /\ y - x <= n - 1

\* C18: for ordersCount >= 2 and rangePercent > 0 the planner gives exactly
\* ordersCount prices, strictly increasing with the leg number, evenly
\* stepped, the first and the last at the window's bounds to the cent
C18_PlannerLadder ==
  /\ C18_Shape
  /\ \A i \in DcaEntries : \A j \in DcaEntries :
       log[i].leg < log[j].leg => log[i].price < log[j].price

\* the TP legs sent, at the opening and at every recompute, failed ones
\* included
TpEntries == {i \in LogIdx : log[i].ladder = "tp" /\ log[i].op = "place_order"}

\* C19: every TP leg price lies in the profit direction of its basis price:
\* above it for long, below it for short (every configured pricePercent is
\* positive); basis 50000, long, legs {5,50},{10,50}, amount 1000 gives
\* 52500.00 and 55000.00 with quantity 0.010 each
C19_TpInProfitDirection ==
  \A i \in TpEntries :
    LET b == log[i].basis
    IN  /\ config.side = "long"  => log[i].price * b[2] > b[1]
        /\ config.side = "short" => log[i].price * b[2] < b[1]
        /\ (config.side = "long" /\ b = <<5000000, 1>>
              /\ config.market_order_amount = 1000) =>
             /\ log[i].price = <<5250000, 5500000>>[log[i].leg]
             /\ log[i].qty = 10

\* the side that closes / opens a position of the configured side
ClosingSide == IF config.side = "long" THEN "Sell" ELSE "Buy"

OpeningSide == IF config.side = "long" THEN "Buy" ELSE "Sell"

\* C20: every TP order is on the side opposite to the configured position
\* side (long -> Sell, short -> Buy); the initial market order and every
\* DCA order are on the opening side (long -> Buy, short -> Sell)
C20_SidesFixedBySide ==
  \A i \in LogIdx :
    (log[i].op = "place_order" /\ log[i].by \in {"start", "tick"}) =>
      /\ config.side \in {"long", "short"}
      /\ log[i].ladder = "tp" => log[i].side = ClosingSide
      /\ log[i].ladder = "dca" => log[i].side = OpeningSide
      /\ (log[i].by = "start" /\ log[i].typ = "Market") => log[i].side = OpeningSide
      /\ log[i].ladder \in {"tp", "dca"} \/ log[i].typ = "Market"

\* a short engine has opened, laddered both ways and recomputed the TP legs
C20_Witness ==
  /\ config.side = "short"
  /\ \E i \in LogIdx : log[i].by = "start" /\ log[i].typ = "Market"
                         /\ log[i].out = "ok" /\ log[i].side = "Sell"
  /\ \E i \in LogIdx : log[i].by = "start" /\ log[i].ladder = "dca"
                         /\ log[i].out = "ok" /\ log[i].side = "Sell"
  /\ \E i \in LogIdx : log[i].by = "start" /\ log[i].ladder = "tp"
                         /\ log[i].out = "ok" /\ log[i].side = "Buy"
  /\ \E i \in LogIdx : log[i].by = "tick" /\ log[i].ladder = "tp"
                         /\ log[i].out = "ok" /\ log[i].side = "Buy"

\* the orders start() and the poll ticks have sized with calculate_quantity
SizedEntries ==
  {i \in LogIdx : log[i].op = "place_order" /\ log[i].by \in {"start", "tick"}}

\* the amount request i asked calculate_quantity for, in hundredths of the
\* quote currency, as the pair <<num, den>>
RequestedAmount(i) ==
  IF log[i].ladder = "tp"
  THEN <<config.tp_orders[log[i].leg].quantity_percent * config.market_order_amount, 1>>
  ELSE IF log[i].ladder = "dca"
  THEN <<config.limit_orders_amount * 100, config.orders_count>>
  ELSE <<config.market_order_amount * 100, 1>>

\* the price request i asked calculate_quantity for, as the pair <<num, den>>
RequestedPrice(i) ==
  IF log[i].ladder = "dca" THEN <<log[i].price, 1>> ELSE log[i].basis

\* amount/price in thousandths is QNum(i) / QDen(i)
QNum(i) == RequestedAmount(i)[1] * 1000 * RequestedPrice(i)[2]

QDen(i) == RequestedAmount(i)[2] * RequestedPrice(i)[1]

\* amount/price rounds to less than 0.001
BelowMinimum(i) == 2 * QNum(i) <= QDen(i)

\* C21: with quantities in thousandths, every quantity is at least 0.001;
\* it is amount/price rounded to 3 places (within half a thousandth of it),
\* or 0.001 when that rounds to less, and then price * quantity exceeds the
\* requested amount
C21_QuantityNormalized ==
  \A i \in SizedEntries :
    /\ QNum(i) > 0 /\ QDen(i) > 0
    /\ log[i].qty >= 1
    /\ IF BelowMinimum(i)
       THEN log[i].qty = 1 /\ log[i].qty * QDen(i) > QNum(i)
       ELSE /\ 2 * (log[i].qty * QDen(i) - QNum(i)) <= QDen(i)
            /\ 2 * (QNum(i) - log[i].qty * QDen(i)) <= QDen(i)

\* a market order for less than half a thousandth of the instrument was
\* raised to 0.001, and a DCA leg of 300/2 at 50000.00 was rounded to 0.003
C21_Witness ==
  /\ \E i \in SizedEntries : log[i].typ = "Market" /\ BelowMinimum(i)
                               /\ log[i].qty = 1
  /\ \E i \in SizedEntries : log[i].ladder = "dca" /\ ~BelowMinimum(i)
                               /\ log[i].qty = 3

\* the notional of TP leg k in thousandths of the quote currency per unit of
\* price: market_order_amount * quantityPercent / 100, times 1000
TpNotional(k) ==
  config.tp_orders[k].quantity_percent * config.market_order_amount * 1000

\* C22: every TP leg, at the opening and at every recompute, has the
\* quantity market_order_amount * (quantityPercent/100) / basisPrice
\* rounded to 3 places (or the minimum 0.001), whatever the position's size
C22_TpQuantityFromConfiguredAmount ==
  \A i \in TpEntries :
    log[i].by \in {"start", "tick"} =>
      LET b == log[i].basis
          n == TpNotional(log[i].leg) * b[2]
          q == log[i].qty
      IN  \/ 2 * (q * b[1] - n) <= b[1] /\ 2 * (n - q * b[1]) <= b[1]
          \/ 2 * n <= b[1] /\ q = 1

\* a recompute placed a TP leg against a new basis after a DCA leg had
\* grown the position beyond the market order's quantity
C22_Witness ==
  \E i \in TpEntries : \E j \in LogIdx :
    /\ log[i].by = "tick" /\ log[i].out = "ok"
    /\ log[i].basis # <<5000000, 1>>
    /\ log[j].by = "start" /\ log[j].typ = "Market" /\ log[j].out = "ok"
    /\ exch.size > log[j].qty

\* C23: a signal delivered to a running engine runs stop() to its end, and
\* only then does the process exit: the process never exits with the
\* handler's stop() unfinished, a handler that entered stop() on a running
\* engine always reaches the exit with stop() done and is_running cleared
C23_StopThenExit ==
  /\ [](exited => /\ stopf["sig1"].pc = "none"
                   /\ stopf["sig1"].last \in {"done", "noop"}
                   /\ ~is_running)
  /\ [][(~exited /\ exited') => (stopf["sig1"].pc # "none" \/ ~is_running)]_vars
  /\ (stopf["sig1"].pc # "none")
       ~> (exited /\ stopf["sig1"].last = "done" /\ ~is_running)

\* the signal interrupted a recompute; the handler flattened the position,
\* cancelled an order and the process exited
C23_Witness ==
  /\ exited /\ stopf["sig1"].last = "done"
  /\ main.pc \in {"rc_cancel", "rc_pos", "rc_tp"}
  /\ \E i \in LogIdx : log[i].by = "sig1" /\ log[i].op = "place_order"
                         /\ log[i].out = "ok"
  /\ \E i \in LogIdx : log[i].by = "sig1" /\ log[i].op = "cancel_order"
                         /\ log[i].out = "ok"

\* the market order of the opening, the limit orders of its ladders, its
\* ticker queries that returned a price, and the requests of the poll ticks
MarketEntries == {i \in LogIdx : log[i].by = "start" /\ log[i].typ = "Market"}

LadderEntries(l) == {i \in LogIdx : log[i].by = "start" /\ log[i].ladder = l}

PriceEntries ==
  {i \in LogIdx : log[i].by = "start" /\ log[i].op = "get_tickers"
                    /\ log[i].out = "ok"}

TickEntries == {i \in LogIdx : log[i].by = "tick"}

\* the market order comes before every limit order, every TP leg before
\* every DCA leg, and every poll after the market order and after a
\* request for every configured leg of each ladder (a DCA leg has a request
\* when the configuration carries limit_orders_amount)
OpeningInOrder ==
  /\ \A i \in LadderEntries("tp") \cup LadderEntries("dca") :
       log[i].typ = "Limit" /\ \E m \in MarketEntries : m < i
  /\ \A i \in LadderEntries("tp") : \A j \in LadderEntries("dca") : i < j
  /\ \A t \in TickEntries :
       /\ \A k \in 1 .. Len(config.tp_orders) :
            \E i \in LadderEntries("tp") : log[i].leg = k /\ i < t
       /\ "limit_orders_amount" \in config.fields =>
            \A k \in 1 .. config.orders_count :
              \E i \in LadderEntries("dca") : log[i].leg = k /\ i < t
       /\ \E m \in MarketEntries : m < t

\* no price is fetched by the opening after its market order
NoPriceAfterMarket ==
  \A m \in MarketEntries : \A i \in LogIdx :
    (log[i].by = "start" /\ log[i].op = "get_tickers") => i < m

\* every leg of both ladders is planned from the price ticker query t returned
PlannedFromQuery(t) ==
  \A i \in LadderEntries("tp") \cup LadderEntries("dca") :
    log[i].basis = <<log[t].price, 1>>

\* C24 as stated: the opening is ordered and both ladders are planned from
\* the ticker price observed just before the market order, the last price
\* fetched before it
C24_OpeningOrdered ==
  /\ OpeningInOrder
  /\ NoPriceAfterMarket
  /\ \A m \in MarketEntries : \A t \in PriceEntries :
       (t < m /\ \A u \in PriceEntries : u < m => u <= t) => PlannedFromQuery(t)

\* C24 amended: the opening is ordered and both ladders are planned from
\* the price of the run's first ticker query, fetched before set_leverage;
\* the market order is sized from a second query made just before it, and no
\* price is fetched after the market order
C24_OpeningOrderedFirstPrice ==
  /\ OpeningInOrder
  /\ NoPriceAfterMarket
  /\ \A m \in MarketEntries :
       /\ 1 \in PriceEntries /\ PlannedFromQuery(1)
       /\ m >= 2 /\ m - 1 \in PriceEntries
       /\ log[m].basis = <<log[m - 1].price, 1>>
       /\ \E v \in 2 .. m - 2 : log[v].op = "set_leverage"

\* the ticker moved between the two queries, the market order executed, both
\* ladders were placed and the first poll was made
C24_Witness ==
  /\ \E m \in MarketEntries : /\ log[m].out = "ok"
                               /\ log[1].price = 5000000
                               /\ log[m - 1].price = 5100000
  /\ \E i \in LadderEntries("tp") : log[i].leg = 2 /\ log[i].out = "ok"
  /\ \E i \in LadderEntries("dca") : log[i].leg = 2 /\ log[i].out = "ok"
  /\ TickEntries # {}

\* the open-orders queries of recomputes and of stop() that returned a list
\* and whose cancels are over
RecomputeQueries ==
  {i \in LogIdx : /\ log[i].op = "get_open_orders" /\ log[i].out = "ok"
                   /\ log[i].rc # 0 /\ CancelsOver(i)}

StopQueries ==
  {i \in LogIdx : /\ log[i].op = "get_open_orders" /\ log[i].out = "ok"
                   /\ log[i].inv # 0 /\ CancelsOver(i)}

\* the ids whose cancellation was requested after query i, by its recompute
\* or by its execution of stop()
CancelRequested(i) ==
  {log[j].id : j \in {h \in LogIdx : /\ i < h /\ log[h].op = "cancel_order"
                                      /\ log[h].rc = log[i].rc
                                      /\ log[h].inv = log[i].inv}}

\* C25: a recompute requests the cancellation of exactly the open orders of
\* type Limit its query listed; stop() requests the cancellation of every
\* open order its query listed, whatever the type
C25_CancelSelection ==
  /\ \A i \in RecomputeQueries : CancelRequested(i) = log[i].limits
  /\ \A i \in StopQueries : CancelRequested(i) = log[i].ids

\* no cancel of the recompute or stop() that query i belongs to has raised
NoCancelRaised(i) ==
  \A h \in LogIdx :
    (log[h].op = "cancel_order" /\ log[h].rc = log[i].rc /\ log[h].inv = log[i].inv)
      => log[h].out # "exc"

\* the selection of C25 where no cancel of the recompute has raised, and in
\* every case no cancel for an order that is not of type Limit
C25_SelectionUnlessRaised ==
  /\ \A i \in RecomputeQueries :
       /\ CancelRequested(i) \subseteq log[i].limits
       /\ NoCancelRaised(i) => CancelRequested(i) = log[i].limits
  /\ \A i \in StopQueries : CancelRequested(i) = log[i].ids

\* a recompute and stop() have both cancelled beside an order of another type
C25_BothCancelled ==
  /\ \E i \in RecomputeQueries : log[i].limits # log[i].ids /\ NoCancelRaised(i)
  /\ \E i \in StopQueries : log[i].limits # log[i].ids

\* the requests of the thread inside start(), in order
StartEntries == {i \in LogIdx : log[i].by = "start"}

\* the request start() sent next after request i, 0 when there is none
NextOfStart(i) ==
  IF \E j \in StartEntries : i < j
  THEN CHOOSE j \in StartEntries : i < j /\ \A h \in StartEntries : i < h => j <= h
  ELSE 0

\* C26: a set_leverage call that raised (as for code 110043) does not end
\* the opening: open_position goes on to fetch the price, and once the price
\* is fetched it submits the market order
C26_LeverageErrorIgnored ==
  \A i \in StartEntries :
    (log[i].op = "set_leverage" /\ log[i].out = "exc") =>
      LET t == NextOfStart(i)
      IN  IF t = 0 THEN main.pc = "open_price"
          ELSE /\ log[t].op = "get_tickers"
               /\ log[t].out = "ok" =>
                    LET m == NextOfStart(t)
                    IN  IF m = 0 THEN main.pc = "market"
                        ELSE log[m].op = "place_order" /\ log[m].typ = "Market"

\* set_leverage raised and the market order was accepted all the same
C26_Witness ==
  \E i \in StartEntries : \E m \in MarketEntries :
    /\ log[i].op = "set_leverage" /\ log[i].out = "exc"
    /\ i < m /\ log[m].out = "ok" /\ exch.size > 0

\* price is one of the hundredths nearest to num/den
NearestHundredth(price, num, den) ==
  2 * (price * den - num) <= den /\ 2 * (num - price * den) <= den

\* the unrounded price of TP leg i, in hundredths, as <<num, den>>
RawTpPrice(i) ==
  LET b  == log[i].basis
      pp == config.tp_orders[log[i].leg].price_percent
  IN  <<b[1] * (IF config.side = "short" THEN 100 - pp ELSE 100 + pp), b[2] * 100>>

\* the unrounded price of DCA leg i, k-1 steps up from the current price or
\* n-k steps down from it, in hundredths, as <<num, den>>
RawDcaPrices(i) ==
  LET n  == config.orders_count
      k  == log[i].leg
      rp == config.range_percent
  IN  {<<PlannedFrom(i) * (100 * (n - 1) + o), 100 * (n - 1)>> :
         o \in {(k - 1) * rp, 0 - (n - k) * rp}}

\* C27: every limit order of TradingEngine, TP legs at the opening and at a
\* recompute and DCA legs, carries its planned price rounded to 2 decimals:
\* with prices in hundredths, a hundredth nearest to the unrounded price
C27_LimitPricesRounded ==
  \A i \in LogIdx :
    (log[i].op = "place_order" /\ log[i].typ = "Limit"
       /\ log[i].by \in {"start", "tick"}) =>
      /\ log[i].ladder \in {"tp", "dca"}
      /\ log[i].ladder = "tp" =>
           NearestHundredth(log[i].price, RawTpPrice(i)[1], RawTpPrice(i)[2])
      /\ log[i].ladder = "dca" =>
           \E r \in RawDcaPrices(i) : NearestHundredth(log[i].price, r[1], r[2])

\* a TP leg at 3.33 * 1.05 = 3.4965 went out at 3.50, and a DCA leg whose
\* unrounded price is no whole hundredth went out as well
C27_Witness ==
  /\ \E i \in TpEntries : /\ log[i].basis = <<333, 1>> /\ log[i].leg = 1
                           /\ config.side = "long" /\ log[i].price = 350
  /\ \E i \in DcaEntries :
       \A r \in RawDcaPrices(i) : r[1] % r[2] # 0

\* execution v of stop() had its position query or its flattening order fail
FlattenFailed(v) ==
  \E i \in StopIdx(v) : /\ log[i].op \in {"get_positions", "place_order"}
                         /\ log[i].out # "ok"

\* C28: a stop() whose position query or flattening order failed, by an
\* error result or by a raise, has still queried the open orders, and
\* requested the cancel of each one listed, when it returns
C28_CancelAfterFailedFlatten ==
  stopf["caller"].pc = "none" =>
    \A v \in Invs :
      FlattenFailed(v) =>
        \E i \in StopIdx(v) :
          /\ log[i].op = "get_open_orders"
          /\ \A id \in log[i].ids :
               \E j \in StopIdx(v) : i < j /\ log[j].op = "cancel_order"
                                       /\ log[j].id = id

\* C28 for failures reported as an error result: the cancellations follow
C28_CancelAfterErrorResult ==
  stopf["caller"].pc = "none" =>
    \A v \in Invs :
      (FlattenFailed(v) /\ \A i \in StopIdx(v) :
                             log[i].op \in {"get_positions", "place_order"}
                               => log[i].out # "exc") =>
        \E i \in StopIdx(v) :
          /\ log[i].op = "get_open_orders"
          /\ \A id \in log[i].ids :
               \E j \in StopIdx(v) : i < j /\ log[j].op = "cancel_order"
                                       /\ log[j].id = id

\* the requests of recompute r
RecomputeIdx(r) == {i \in LogIdx : log[i].by = "tick" /\ log[i].rc = r}

\* the open-orders query of recompute r or one of its cancels failed
CancellingFailed(r) ==
  \E i \in RecomputeIdx(r) :
    log[i].op \in {"get_open_orders", "cancel_order"} /\ log[i].out # "ok"

\* the position query of recompute r reported an open position with an
\* average price
BasisReported(r) ==
  \E i \in RecomputeIdx(r) : /\ log[i].op = "get_positions" /\ log[i].out = "ok"
                              /\ log[i].seen > 0 /\ log[i].avg # 0

\* recompute r has returned to check_executed_orders
RecomputeOver(r) == r < count.rc \/ (r = count.rc /\ main.pc = "sleep")

RecomputeStages == {"rc_open", "rc_cancel", "rc_pos", "rc_tp"}

\* C29: a recompute whose open-orders query or cancel failed has still
\* asked for the position when it is over and, when the exchange reported a
\* position with an average price, has placed every TP leg against that
\* price in its own tick; the tick goes on from a recompute to the loop's
\* sleep or to another recompute, never out of the loop
C29_RecomputeSurvivesCancelFailure ==
  /\ [](\A r \in 1 .. count.rc :
         (CancellingFailed(r) /\ RecomputeOver(r)) =>
           \E q \in RecomputeIdx(r) : log[q].op = "get_positions")
  /\ [](\A r \in 1 .. count.rc :
         (CancellingFailed(r) /\ BasisReported(r) /\ RecomputeOver(r)) =>
           \A k \in 1 .. Len(config.tp_orders) :
             \E i \in RecomputeIdx(r) : \E q \in RecomputeIdx(r) :
               /\ log[i].ladder = "tp" /\ log[i].leg = k
               /\ log[q].op = "get_positions" /\ q < i
               /\ log[i].tick = log[q].tick
               /\ log[i].basis = <<log[q].avg, 1>>)
  /\ [][main.pc \in RecomputeStages
          => main'.pc \in RecomputeStages \cup {"sleep"}]_vars

\* the first cancel of a recompute raised, the position was reported, both
\* TP legs were placed again and the loop sleeps
C29_Witness ==
  /\ main.pc = "sleep" /\ is_running
  /\ \E r \in 1 .. count.rc :
       /\ \E i \in RecomputeIdx(r) : log[i].op = "cancel_order" /\ log[i].out = "exc"
       /\ BasisReported(r)
       /\ \A k \in 1 .. Len(config.tp_orders) :
            \E i \in RecomputeIdx(r) : /\ log[i].ladder = "tp" /\ log[i].leg = k
                                        /\ log[i].out = "ok"

\* the TP legs placed in poll tick t, and the recomputes started in it
TpPlacedInTick(t) ==
  {i \in TpEntries : log[i].by = "tick" /\ log[i].tick = t}

RecomputesInTick(t) ==
  {log[i].rc : i \in {h \in LogIdx : /\ log[h].by = "tick" /\ log[h].tick = t
                                      /\ log[h].rc # 0}}

\* C30: a poll tick runs at most one recompute, however many orders its
\* open-orders query lists as Filled, and so places at most len(tp_orders)
\* TP legs
C30_OneRecomputePerTick ==
  \A t \in 1 .. MaxTicks :
    /\ Cardinality(RecomputesInTick(t)) <= 1
    /\ Cardinality(TpPlacedInTick(t)) <= Len(config.tp_orders)

\* this step is the exchange executing a flattening order of stop()
FlattenExecutes ==
  /\ Len(log') = Len(log) + 1
  /\ log'[Len(log')].op = "place_order" /\ log'[Len(log')].inv # 0
  /\ log'[Len(log')].out = "ok"

\* the position is open on the side opposite to the one the engine opened
Reversed == exch.size > 0 /\ exch.side = ClosingSide

\* C31: the flattening order of stop() is never larger than the position the
\* exchange holds when it executes the order, also when a resting TP or DCA
\* order fills between the position query and the order, so the order never
\* leaves the position open on the opposite side
C31_FlattenWithinPosition ==
  [][FlattenExecutes => /\ log'[Len(log')].qty <= exch.size
                        /\ ~Reversed']_vars

\* C31 without the fill in between: an order executed on the position its
\* query reported closes it exactly
C31_FlattenOfUnchangedPosition ==
  [][(FlattenExecutes /\ log'[Len(log')].qty = exch.size) => exch'.size = 0]_vars

\* a TP leg filled after the position query; the flattening order was the
\* last execution, stop() returned and the position is open on the opposite
\* side
C31_ReversedAfterStop ==
  /\ stopf["caller"].last = "done" /\ ~is_running /\ Reversed
  /\ \E i \in LogIdx : /\ Flatten(i) /\ log[i].out = "ok"
                        /\ log[i].qty > exch.size
                        /\ exch.history[Len(exch.history)].qty = log[i].qty

\* the flattening orders submitted so far, by any execution of stop()
FlattenEntries == {i \in LogIdx : Flatten(i)}

\* C32: one run submits at most one flattening market order, also when a
\* second termination signal arrives while stop() is in progress
C32_OneFlattenPerRun == Cardinality(FlattenEntries) <= 1

\* C32 for a single signal: its stop() submits at most one flattening order
C32_OneFlattenPerStop ==
  \A v \in Invs : Cardinality(FlattenEntries \cap StopIdx(v)) <= 1

\* both handlers flattened: the order of the first executed, a resting order
\* filled before its cancel, and the stop() of the second signal found a
\* position again and sent its own order
C32_TwoExecuted ==
  /\ exited
  /\ \E i \in FlattenEntries : \E j \in FlattenEntries :
       /\ log[i].by = "sig1" /\ log[j].by = "sig2"
       /\ log[i].out = "ok" /\ log[j].out = "ok"

\* this step is a call of start() by another caller, returning with outcome r
StartReturns(r) ==
  /\ stopf'["caller"].last = r /\ stopf'["caller"].pc = "none"
  /\ stopf["caller"].pc = "none" /\ stopf["caller"].last # r

StartOutcomes == {"running", "noconfig", "invalid", "started"}

\* C33: start() called while is_running is set is a no-op: it returns as
\* "already running", does not load config.json, sends no request, places
\* no market order and leaves is_running, start_time and config as they were
C33_StartWhileRunningIsNoOp ==
  [][(is_running /\ \E r \in StartOutcomes : StartReturns(r))
       => /\ StartReturns("running")
          /\ UNCHANGED <<is_running, config, start_time, main, exch, log,
                         obs, count, exited>>]_vars

\* start() was called in the middle of a poll tick and returned at once: the
\* engine runs on with the configuration it had and its one market order
C33_Witness ==
  /\ stopf["caller"].last = "running" /\ is_running
  /\ main.pc = "chk_open"
  /\ config \in {FullConfig("long"), FullConfig("short")}
  /\ Cardinality(MarketEntries) = 1
====
